---- MODULE Spec2Model ----
(***************************************************************************)
(* A model of the legacy backend's folder router (class WorkspaceService)  *)
(* of dprint-vscode: the routing table (#folders, #globalFolder), the      *)
(* asynchronous re-initialization initializeFolders with its three         *)
(* suspension points, dispose, and the synchronous request routing.        *)
(*                                                                         *)
(* Uris are sequences of one-character strings: the path "/a/b" is         *)
(* <<"/","a","/","b">>.  The absent uri (undefined) is the empty sequence, *)
(* and the absent service is the id 0.                                     *)
(***************************************************************************)
EXTENDS Naturals, Sequences, FiniteSets

\* ------------------------------------------------------------- bounds

\* initializeFolders calls that get past the disposed check, over a run.
MaxCalls == 2
\* FolderService instances constructed over a run.
MaxServices == 4
\* Folder services of a routing table drawn for the routing function.
MaxTable == 3
\* Config files one discovery returns, when a single call is studied.
MaxFiles == 2
\* Folder roots handed to isUserLevelConfig, when it is studied alone.
MaxRoots == 2
MaxRestarts == 2

\* ------------------------------------------------------------ universe

None == <<>>
NoService == 0

\* Workspace folder roots: /a, the nested /a/b, and the sibling /ab whose
\* name merely begins with "a".
RootA == <<"/", "a">>
RootAB == <<"/", "a", "/", "b">>
RootAX == <<"/", "a", "b">>
\* A second, unrelated root: /b.
RootB == <<"/", "b">>

\* Configuration files: /a/d, /a/b/d, and /u/d outside every root.
ConfA == <<"/", "a", "/", "d">>
ConfAB == <<"/", "a", "/", "b", "/", "d">>
ConfU == <<"/", "u", "/", "d">>
\* More configuration files: /ab/d, /b/d, and a second user-level /v/d.
ConfAX == <<"/", "a", "b", "/", "d">>
ConfB == <<"/", "b", "/", "d">>
ConfV == <<"/", "v", "/", "d">>
\* The config files of the user-level config directory.
UserDirConfigs == {ConfU, ConfV}
\* What an explicit dprint.configPath setting resolves to.
ConfE == <<"/", "e">>

\* What discoverWorkspaceConfigFiles may return: nothing, the config of
\* /a, that and a second one below /a, or a user-level config.
DiscoverChoices == {<<>>, <<ConfA>>, <<ConfA, ConfAB>>, <<ConfU>>}

\* The config file whose content is invalid: initialize() of a service
\* bound to it returns false.
InvalidConfigs == {ConfAB}

\* The config file on which initialize() of a service bound to it raises
\* an error instead of returning.
ThrowingConfigs == {ConfB}

\* The config file with which initialize() returns true while the service
\* reports no editor info (getEditorInfo() is undefined).
NoInfoConfigs == {ConfV}

\* Documents: /a/x, /a/b/x, /ab/x, and /z/x outside every root.
DocA == <<"/", "a", "/", "x">>
DocAB == <<"/", "a", "/", "b", "/", "x">>
DocAX == <<"/", "a", "b", "/", "x">>
DocZ == <<"/", "z", "/", "x">>
Documents == {DocA, DocAB, DocAX, DocZ}
\* The documents requests are made for while the router runs.
RequestDocuments == {DocA, DocZ}

\* vscode.workspace.workspaceFolders: undefined, or a list of folders.
NullFolders == [isNull |-> TRUE, list |-> <<>>]
FolderList(l) == [isNull |-> FALSE, list |-> l]
WorkspaceChoices == {NullFolders, FolderList(<<>>), FolderList(<<RootA>>)}

\* The dprint.configPath setting of a folder: not set, set to a path that
\* does not resolve, set to a path that resolves (to ConfE).
ConfigPathSettings == {"unset", "unresolvable", "resolvable"}

\* ------------------------------------------------------- pure helpers

Range(s) == {s[i] : i \in 1..Len(s)}

\* String.prototype.startsWith
StartsWith(s, p) == Len(p) <= Len(s) /\ SubSeq(s, 1, Len(p)) = p

\* String.prototype.endsWith for a one-character suffix
EndsWithSlash(s) == Len(s) > 0 /\ s[Len(s)] = "/"

\* vscode.Uri.fsPath of a file uri: the path itself.
FsPath(u) == u

\* vscode.Uri.toString(): the scheme and authority, then the path.
ToString(u) == <<"file://">> \o u

\* Sequences over S of length at most n.
RECURSIVE SeqsUpTo(_, _)
SeqsUpTo(S, n) ==
    IF n = 0 THEN {<<>>}
    ELSE LET shorter == SeqsUpTo(S, n - 1)
         IN shorter \cup {Append(q, x) : q \in shorter, x \in S}

\* ---------------------------------------------------------------- state

VARIABLES
    workspaceFolders,   \* vscode.workspace.workspaceFolders
    svc,                \* every FolderService constructed so far, by id
    folders,            \* WorkspaceService.#folders: service ids, in order
    globalFolder,       \* WorkspaceService.#globalFolder: an id, or NoService
    disposed,           \* WorkspaceService.#disposed
    storesDisposed,     \* the backend's resourceStores have been disposed
    calls,              \* the initializeFolders calls made, by call id
    lastOp              \* the operation of the latest step and its outcome

vars == <<workspaceFolders, svc, folders, globalFolder, disposed,
         storesDisposed, calls, lastOp>>

\* ------------------------------------------------------- FolderService

\* new FolderService({workspaceFolder, configUri, useConfigDirAsCwd}),
\* constructed by call c.  status: "constructed", "initializing" (an
\* initialize() is running), "ready" (the latest returned true), "failed".
NewService(folder, config, useCwd, c) ==
    [workspaceFolder |-> folder, configUri |-> config,
     useConfigDirAsCwd |-> useCwd, builtBy |-> c,
     status |-> "constructed", initCount |-> 0, editorInfo |-> FALSE,
     running |-> FALSE, disposeCount |-> 0, restarts |-> 0]

\* FolderService.uri: the root the service is bound to.
ServiceUri(s) == s.workspaceFolder

\* FolderService.dispose(), called n times: the formatter process is
\* terminated.
DisposeService(s, n) ==
    IF n = 0 THEN s
    ELSE [s EXCEPT !.disposeCount = @ + n, !.running = FALSE]

\* FolderService.initialize() is called: it runs until it settles.
StartInitialize(s, n) ==
    IF n = 0 THEN s
    ELSE [s EXCEPT !.initCount = @ + n, !.status = "initializing"]

\* How initialize() of service s may settle: it returns true ("ok"), the
\* editor info known and the formatter process running, it returns false
\* ("failed"), it raises an error ("threw"), or it returns true without
\* editor info ("noinfo").
InitOutcomes(s) ==
    IF s.configUri \in InvalidConfigs THEN {"failed"}
    ELSE IF s.configUri \in ThrowingConfigs THEN {"threw"}
    ELSE IF s.configUri \in NoInfoConfigs THEN {"noinfo"}
    ELSE {"ok"}

\* FolderService.initialize() settles with outcome o.
SettleInitialize(s, o) ==
    [s EXCEPT !.status = IF o \in {"ok", "noinfo"} THEN "ready" ELSE "failed",
              !.editorInfo = (o = "ok"),
              !.running = (o \in {"ok", "noinfo"} /\ s.disposeCount = 0)]

\* The pid of the n-th formatter process that service id started after
\* its first: every process started has a pid of its own.
Pid(id, n) == id + (MaxServices + 1) * n

\* FolderService.getEditorServicePid(): the pid of the running formatter
\* process, or 0 for undefined.
ServicePid(sv, id) == IF sv[id].running THEN Pid(id, sv[id].restarts) ELSE 0

\* The formatter process of service s exits: it was killed from outside.
KillService(s) == [s EXCEPT !.running = FALSE]

\* FolderService.provideFormattingEdits on service s: a formatter process
\* that is not alive is started first, then the request is served.
ServeRequest(s) ==
    IF s.running THEN s
    ELSE [s EXCEPT !.running = TRUE, !.restarts = @ + 1]

\* ------------------------------------------------------------- routing

Occurrences(tbl, g, id) ==
    Cardinality({k \in 1..Len(tbl) : tbl[k] = id}) + (IF g = id THEN 1 ELSE 0)

\* Mutant of BestMatch: a matching folder replaces bestMatch whatever its
\* length, so the last match wins.
RECURSIVE BestMatchLast(_, _, _, _, _)
BestMatchLast(sv, tbl, uri, i, best) ==
    IF i > Len(tbl) THEN best
    ELSE LET folder == tbl[i]
             hit == StartsWith(FsPath(uri), FsPath(ServiceUri(sv[folder])))
         IN BestMatchLast(sv, tbl, uri, i + 1, IF hit THEN folder ELSE best)

\* The loop of #getFolderForUri from position i on, bestMatch being best.
RECURSIVE BestMatch(_, _, _, _, _)
BestMatch(sv, tbl, uri, i, best) ==
    IF i > Len(tbl) THEN best
    ELSE LET folder == tbl[i]
             hit == /\ StartsWith(FsPath(uri), FsPath(ServiceUri(sv[folder])))
                    /\ \/ best = NoService
                       \/ StartsWith(FsPath(ServiceUri(sv[folder])),
                                     FsPath(ServiceUri(sv[best])))
         IN BestMatch(sv, tbl, uri, i + 1, IF hit THEN folder ELSE best)

\* #getFolderForUri: bestMatch ?? this.#globalFolder
GetFolderForUri(sv, tbl, g, uri) ==
    LET bestMatch == BestMatch(sv, tbl, uri, 1, NoService)
    IN IF bestMatch # NoService THEN bestMatch ELSE g

\* The logDebug call of #getFolderForUri reads result.uri.fsPath when a
\* service was picked: a TypeError is thrown when the service was built
\* with no workspace folder.
GetFolderForUriThrows(sv, tbl, g, uri) ==
    LET result == GetFolderForUri(sv, tbl, g, uri)
    IN result # NoService /\ ServiceUri(sv[result]) = None

\* Mutant of ClearFolders: the services are disposed and stay in the table.
ClearFoldersKeep(sv, tbl, g) ==
    [svc |-> [id \in DOMAIN sv |->
                 DisposeService(sv[id], Occurrences(tbl, g, id))],
     folders |-> tbl,
     globalFolder |-> g]

\* #clearFolders: every service of the table is disposed, the table emptied.
ClearFolders(sv, tbl, g) ==
    [svc |-> [id \in DOMAIN sv |->
                 DisposeService(sv[id], Occurrences(tbl, g, id))],
     folders |-> <<>>,
     globalFolder |-> NoService]

\* Mutant of AssertNotDisposedThrows: the check is missing.
AssertNeverThrows(d) == FALSE

\* #assertNotDisposed: TRUE when it throws ObjectDisposedError.
AssertNotDisposedThrows(d) == d

\* --------------------------------------------------- initializeFolders

\* areDirectoryUrisEqual with its standarizeUri
StandarizeUri(uri) ==
    LET text == ToString(uri)
    IN IF EndsWithSlash(text) THEN text ELSE text \o <<"/">>

AreDirectoryUrisEqual(a, b) == StandarizeUri(a) = StandarizeUri(b)

\* Mutant of IsUserLevelConfig: only the first folder is looked at.
IsUserLevelConfigFirstOnly(configUri, workspaceFolderUris) ==
    \/ Len(workspaceFolderUris) = 0
    \/ ~StartsWith(configUri, workspaceFolderUris[1])

\* Mutant of IsUserLevelConfig: the negation is missing.
IsUserLevelConfigNegated(configUri, workspaceFolderUris) ==
    \E i \in 1..Len(workspaceFolderUris) :
        StartsWith(configUri, workspaceFolderUris[i])

\* Mutant of IsUserLevelConfig: only the last folder is looked at.
IsUserLevelConfigLastOnly(configUri, workspaceFolderUris) ==
    \/ Len(workspaceFolderUris) = 0
    \/ ~StartsWith(configUri, workspaceFolderUris[Len(workspaceFolderUris)])

\* isUserLevelConfig(configUri, workspaceFolderUris), both as strings
IsUserLevelConfig(configUri, workspaceFolderUris) ==
    ~ \E i \in 1..Len(workspaceFolderUris) :
          StartsWith(configUri, workspaceFolderUris[i])

\* this.#folders.push(new FolderService(...)) on the pair acc of the
\* services and the table.
Push(acc, s) ==
    [svc |-> Append(acc.svc, s),
     folders |-> Append(acc.folders, Len(acc.svc) + 1)]

RECURSIVE PushAll(_, _, _, _)
PushAll(acc, folder, configs, c) ==
    IF configs = <<>> THEN acc
    ELSE PushAll(Push(acc, NewService(folder, Head(configs), FALSE, c)),
                 folder, Tail(configs), c)

\* this.#folders.some(f => areDirectoryUrisEqual(f.uri, folder.uri))
HasFolder(acc, folder) ==
    \E i \in 1..Len(acc.folders) :
        AreDirectoryUrisEqual(ServiceUri(acc.svc[acc.folders[i]]), folder)

\* Mutant of FolderStep: the explicit branch lacks its "continue", so the
\* discovered and user-level configs are bound as well.
FolderStepNoContinue(acc, folder, inp) ==
    LET stringFolderUri == ToString(folder)
        explicitConfigPath ==
            IF stringFolderUri \in DOMAIN inp.map
            THEN inp.map[stringFolderUri] ELSE None
        first == IF explicitConfigPath # None
                 THEN Push(acc, NewService(folder, explicitConfigPath, FALSE,
                                           inp.call))
                 ELSE acc
        subConfigUris ==
            SelectSeq(inp.configFiles,
                      LAMBDA c : StartsWith(ToString(c), stringFolderUri))
    IN PushAll(first, folder, subConfigUris, inp.call)

\* Mutant of FolderStep: without an explicit configPath, a user-level
\* config is bound before the discovered configs of the folder are looked at.
FolderStepUserFirst(acc, folder, inp) ==
    LET stringFolderUri == ToString(folder)
        explicitConfigPath ==
            IF stringFolderUri \in DOMAIN inp.map
            THEN inp.map[stringFolderUri] ELSE None
        subConfigUris ==
            SelectSeq(inp.configFiles,
                      LAMBDA c : StartsWith(ToString(c), stringFolderUri))
    IN IF explicitConfigPath # None
       THEN Push(acc, NewService(folder, explicitConfigPath, FALSE, inp.call))
       ELSE IF Len(inp.userLevelConfigs) > 0
       THEN Push(acc, NewService(folder, inp.userLevelConfigs[1], FALSE,
                                 inp.call))
       ELSE PushAll(acc, folder, subConfigUris, inp.call)

\* One round of the loop over the workspace folders.  inp holds the
\* call's folderConfigPathMap, configFiles, userLevelConfigs, the folders
\* some ancestor directory of which holds a config file, and the call id.
FolderStep(acc, folder, inp) ==
    LET stringFolderUri == ToString(folder)
        explicitConfigPath ==
            IF stringFolderUri \in DOMAIN inp.map
            THEN inp.map[stringFolderUri] ELSE None
    IN IF explicitConfigPath # None
       THEN Push(acc, NewService(folder, explicitConfigPath, FALSE, inp.call))
       ELSE LET subConfigUris ==
                    SelectSeq(inp.configFiles,
                              LAMBDA c : StartsWith(ToString(c), stringFolderUri))
                withSub == PushAll(acc, folder, subConfigUris, inp.call)
            IN IF Len(inp.userLevelConfigs) > 0 /\ ~HasFolder(withSub, folder)
               THEN Push(withSub, NewService(folder, inp.userLevelConfigs[1],
                                             FALSE, inp.call))
               ELSE IF ~HasFolder(withSub, folder) /\ folder \in inp.ancestors
               THEN Push(withSub, NewService(folder, None, FALSE, inp.call))
               ELSE withSub

RECURSIVE FolderLoop(_, _, _)
FolderLoop(acc, list, inp) ==
    IF list = <<>> THEN acc
    ELSE FolderLoop(FolderStep(acc, Head(list), inp), Tail(list), inp)

\* Mutant of GlobalService: the last user-level config is taken.
GlobalServiceLast(list, userLevelConfigs, c) ==
    NewService(IF Len(list) > 0 THEN list[1] ELSE None,
               userLevelConfigs[Len(userLevelConfigs)], TRUE, c)

\* The global folder of the call, when there is a user-level config: its
\* anchor is workspaceFolders[0].
GlobalService(list, userLevelConfigs, c) ==
    NewService(IF Len(list) > 0 THEN list[1] ELSE None,
               userLevelConfigs[1], TRUE, c)

\* What resolveConfigPath makes of a folder's configPath setting.
ResolveConfigPath(setting) == IF setting = "resolvable" THEN ConfE ELSE None

\* What a call has read when it resumes after discovery: nothing yet.
\* unresolved holds the folders whose configPath setting was present and
\* failed to resolve.
NoSeen ==
    [discovered |-> FALSE, map |-> <<>>, files |-> <<>>,
     configFiles |-> <<>>, ancestors |-> {}, checkUserLevelConfig |-> TRUE,
     unresolved |-> {}]

\* Mutant of DiscoverWorkspaceConfigFiles: the user-level config
\* directory is probed whatever dprint.checkUserLevelConfig says.
DiscoverWorkspaceConfigFilesAlwaysProbed(check, files) == files

\* discoverWorkspaceConfigFiles: files are the config files of the
\* workspace folders and of the user-level config directory; the latter
\* is not probed when dprint.checkUserLevelConfig is off.
DiscoverWorkspaceConfigFiles(check, files) ==
    IF check THEN files
    ELSE SelectSeq(files, LAMBDA cf : cf \notin UserDirConfigs)

\* ------------------------------------------------- the legacy backend

\* DPRINT_PLUGIN_REGISTRY: the language ids of each plugin key.
Registry ==
    [typescript |-> {"typescript", "javascript", "typescriptreact",
                     "javascriptreact"},
     json |-> {"json", "jsonc"},
     markdown |-> {"markdown"},
     toml |-> {"toml"},
     dockerfile |-> {"dockerfile"},
     biome |-> {"typescript", "javascript", "typescriptreact",
                "javascriptreact", "json", "jsonc"},
     malva |-> {"css", "scss", "sass", "less"},
     markup_fmt |-> {"html", "vue", "svelte", "xml"},
     markup |-> {"html", "vue", "svelte", "xml"},
     graphql |-> {"graphql"},
     yaml |-> {"yaml"},
     ruff |-> {"python"},
     mago |-> {"php"},
     roslyn |-> {"csharp", "vb"},
     prettier |-> {"typescript", "javascript", "typescriptreact",
                   "javascriptreact", "json", "jsonc", "css", "scss",
                   "less", "html", "vue", "yaml", "markdown"},
     jupyter |-> {"jupyter"}]

\* Keys every object inherits from Object.prototype: `key in
\* DPRINT_PLUGIN_REGISTRY` is true of them although the registry has no
\* such entry.
InheritedKeys ==
    {"constructor", "toString", "toLocaleString", "valueOf",
     "hasOwnProperty", "isPrototypeOf", "propertyIsEnumerable", "__proto__",
     "__defineGetter__", "__defineSetter__", "__lookupGetter__",
     "__lookupSetter__"}

\* isKnownPlugin(configKey): configKey in DPRINT_PLUGIN_REGISTRY
IsKnownPlugin(configKey) ==
    configKey \in DOMAIN Registry \cup InheritedKeys

\* getLanguageIdsForPlugin(configKey): the entry's languageIds; without
\* an entry of the registry the result is undefined, here no language.
GetLanguageIdsForPlugin(configKey) ==
    IF configKey \in DOMAIN Registry THEN Registry[configKey] ELSE {}

\* The plugins in the editor info that a service bound to the config file
\* reports: a plugin has a configKey, which may be empty, and a name.
Plugin(configKey, name) == [configKey |-> configKey, name |-> name]

PluginsOf(config) ==
    IF config = ConfA THEN <<Plugin("typescript", "dprint-plugin-typescript")>>
    ELSE IF config = ConfAX THEN <<Plugin("", "toml")>>
    ELSE IF config = ConfU
    THEN <<Plugin("custom", "markdown"), Plugin("json", "dprint-plugin-json")>>
    ELSE IF config = ConfE
    THEN <<Plugin("constructor", "inherited"), Plugin("", "__proto__")>>
    ELSE <<Plugin("", "custom")>>

\* Mutant of PluginKey: the name is not used when configKey is empty.
PluginKeyConfigKeyOnly(plugin) == plugin.configKey

\* plugin.configKey || plugin.name
PluginKey(plugin) ==
    IF plugin.configKey # "" THEN plugin.configKey ELSE plugin.name

\* collectLanguageIds(folderInfos): the language ids of the known plugins
\* of the folder infos (a sequence of services).
CollectLanguageIds(sv, infos) ==
    LET plugins == UNION {Range(PluginsOf(sv[infos[i]].configUri)) :
                             i \in DOMAIN infos}
    IN UNION {IF IsKnownPlugin(PluginKey(plugin))
              THEN GetLanguageIdsForPlugin(PluginKey(plugin))
              ELSE {} : plugin \in plugins}

\* The reInitialize() that awaits a call has not resumed.  registration
\* tells of the formatting provider registration it makes: "none",
\* "live" or "disposed"; languages are the languages registered; held
\* tells that formatterDisposable is this registration.
NotResumed ==
    [settled |-> "pending", errorLogged |-> FALSE, registration |-> "none",
     languages |-> {}, held |-> FALSE]

\* formatterDisposable?.dispose() on the calls cs
DisposeFormatter(cs) ==
    [k \in DOMAIN cs |->
        IF cs[k].reInit.held /\ cs[k].reInit.registration = "live"
        THEN [cs[k] EXCEPT !.reInit.registration = "disposed"]
        ELSE cs[k]]

\* formatterDisposable no longer is the registration it was.
Release(cs) == [k \in DOMAIN cs |-> [cs[k] EXCEPT !.reInit.held = FALSE]]

\* Mutant of ReInitializeReturned: the provider is registered without the
\* previous registration being disposed.
ReInitializeReturnedNoDispose(cs, c, sv, fault) ==
    IF fault = "setFolderInfos" THEN [cs EXCEPT ![c].reInit.errorLogged = TRUE]
    ELSE LET languageIds == CollectLanguageIds(sv, cs[c].infos)
         IN IF languageIds = {} THEN Release(cs)
            ELSE IF fault = "register"
            THEN [cs EXCEPT ![c].reInit.errorLogged = TRUE]
            ELSE [Release(cs) EXCEPT ![c].reInit.registration = "live",
                                     ![c].reInit.languages = languageIds,
                                     ![c].reInit.held = TRUE]

\* reInitialize() resumes with the folder infos call c returned, fault
\* telling what raises an error: "none", "setFolderInfos" or "register"
\* (registerDocumentFormattingEditProvider).  The error is caught and
\* logged.
ReInitializeReturned(cs, c, sv, fault) ==
    IF fault = "setFolderInfos" THEN [cs EXCEPT ![c].reInit.errorLogged = TRUE]
    ELSE LET d == DisposeFormatter(cs)
             languageIds == CollectLanguageIds(sv, cs[c].infos)
         IN IF languageIds = {} THEN Release(d)
            ELSE IF fault = "register"
            THEN [d EXCEPT ![c].reInit.errorLogged = TRUE]
            ELSE [Release(d) EXCEPT ![c].reInit.registration = "live",
                                    ![c].reInit.languages = languageIds,
                                    ![c].reInit.held = TRUE]

\* An initializeFolders call: where it is suspended (pc), what it read and
\* built, and how it ended.  prevGen is the generation it found: the
\* services of the table at its start that a finished call had built.
\* disposedDuring tells that dispose() ran while it was suspended.  seen
\* keeps what it had read when it built its services: the resolved
\* configPath map, the config files on disk (files), those discovery
\* returned (configFiles), the folders with a config file in an ancestor
\* directory, and the checkUserLevelConfig setting.
NewCall(settings, prev) ==
    [pc |-> "awaitResolve", settings |-> settings, map |-> <<>>,
     toInit |-> <<>>, settled |-> <<>>, outcome |-> "pending",
     infos |-> <<>>, disposedDuring |-> FALSE, prevGen |-> prev,
     seen |-> NoSeen, reInit |-> NotResumed]

\* Mutant of ReInitialize: an error that is not an ObjectDisposedError is
\* thrown again.
ReInitializeRethrows(outcome) ==
    [NotResumed EXCEPT
        !.settled = IF outcome \in {"returned", "Disposed"}
                    THEN "resolved" ELSE "rejected"]

\* reInitialize() of the legacy backend, which awaits the call, once the
\* call ended with outcome: what it catches it logs as an error unless it
\* is an ObjectDisposedError, and it never rethrows.
ReInitialize(outcome) ==
    [NotResumed EXCEPT
        !.settled = "resolved",
        !.errorLogged = outcome \notin {"returned", "Disposed"}]

\* The call ended: with the folder infos ("returned"), or by throwing
\* ("Disposed", "TypeError", or "Error": what an initialize() raised).
\* The reInitialize() that awaits it has not resumed yet.
EndCall(call, outcome, infos) ==
    [call EXCEPT !.pc = "done", !.outcome = outcome, !.infos = infos,
                 !.settings = <<>>, !.map = <<>>, !.prevGen = {}]

InProgress(call) == call.pc # "done"

\* The services of the table (folder table tbl, global folder g).
InTable(tbl, g) == Range(tbl) \cup ({g} \ {NoService})

\* What the latest step did: the operation, whether the router was
\* disposed when it began, the document and the service picked (format),
\* the pid returned (getEditorServicePid), and how it ended.
Op(name, was, doc, target, pid, outcome) ==
    [op |-> name, wasDisposed |-> was, doc |-> doc, target |-> target,
     pid |-> pid, outcome |-> outcome]

\* --------------------------------------------------------------- actions

Init ==
    /\ workspaceFolders \in WorkspaceChoices
    /\ svc = <<>>
    /\ folders = <<>>
    /\ globalFolder = NoService
    /\ disposed = FALSE
    /\ storesDisposed = FALSE
    /\ calls = <<>>
    /\ lastOp = Op("none", FALSE, None, NoService, 0, "none")

\* The latest step was a step inside an initializeFolders call.
Internal == Op("internal", FALSE, None, NoService, 0, "none")

\* initializeFolders() up to its first await, the configPath setting of
\* each workspace folder drawn from settingChoices.
InitializeFoldersWith(settingChoices) ==
    IF AssertNotDisposedThrows(disposed)
    THEN /\ lastOp' = Op("initializeFolders", disposed, None, NoService, 0,
                         "Disposed")
         /\ UNCHANGED <<workspaceFolders, svc, folders, globalFolder,
                        disposed, storesDisposed, calls>>
    ELSE /\ Len(calls) < MaxCalls
         /\ LET c == Len(calls) + 1
                cleared == ClearFolders(svc, folders, globalFolder)
                prev == {id \in InTable(folders, globalFolder) :
                            calls[svc[id].builtBy].outcome = "returned"}
            IN /\ svc' = cleared.svc
               /\ folders' = cleared.folders
               /\ globalFolder' = cleared.globalFolder
               /\ IF workspaceFolders.isNull
                  THEN /\ calls' = Append(calls, EndCall(NewCall(<<>>, prev),
                                                         "returned", <<>>))
                       /\ lastOp' = Op("initializeFolders", disposed, None,
                                       NoService, 0, "returned")
                  ELSE /\ \E st \in [{ToString(f) : f \in Range(workspaceFolders.list)}
                                        -> settingChoices] :
                              calls' = Append(calls, NewCall(st, prev))
                       /\ lastOp' = Op("initializeFolders", disposed, None,
                                       NoService, 0, "suspended")
         /\ UNCHANGED <<workspaceFolders, disposed, storesDisposed>>

\* Call c resumes after the await of the resolveConfigPath promises and
\* runs to the await of discoverWorkspaceConfigFiles.
ResumeAfterResolve(c) ==
    /\ calls[c].pc = "awaitResolve"
    /\ calls' = [calls EXCEPT
                    ![c].pc = "awaitDiscover",
                    ![c].settings = <<>>,
                    ![c].map = [k \in DOMAIN calls[c].settings |->
                                   ResolveConfigPath(calls[c].settings[k])],
                    ![c].seen.unresolved =
                        {f \in Range(workspaceFolders.list) :
                            calls[c].settings[ToString(f)] = "unresolvable"}]
    /\ lastOp' = Internal
    /\ UNCHANGED <<workspaceFolders, svc, folders, globalFolder, disposed,
                   storesDisposed>>

\* What call c builds from the discovered configFiles: the services, the
\* table and the global folder, every service to initialize being started.
Built(c, configFiles, ancestors) ==
    LET list == workspaceFolders.list
        allWorkspaceFolderUris == [i \in 1..Len(list) |-> ToString(list[i])]
        userLevelConfigs ==
            SelectSeq(configFiles,
                      LAMBDA cf : IsUserLevelConfig(ToString(cf),
                                                    allWorkspaceFolderUris))
        inp == [map |-> calls[c].map, configFiles |-> configFiles,
                userLevelConfigs |-> userLevelConfigs,
                ancestors |-> ancestors, call |-> c]
        acc == FolderLoop([svc |-> svc, folders |-> folders], list, inp)
        withGlobal ==
            IF Len(userLevelConfigs) > 0
            THEN [svc |-> Append(acc.svc, GlobalService(list, userLevelConfigs, c)),
                  folders |-> acc.folders,
                  globalFolder |-> Len(acc.svc) + 1]
            ELSE [svc |-> acc.svc, folders |-> acc.folders,
                  globalFolder |-> globalFolder]
        foldersToInit ==
            IF withGlobal.globalFolder # NoService
            THEN Append(withGlobal.folders, withGlobal.globalFolder)
            ELSE withGlobal.folders
    IN [svc |-> [id \in DOMAIN withGlobal.svc |->
                    StartInitialize(withGlobal.svc[id],
                                    Occurrences(foldersToInit, NoService, id))],
        folders |-> withGlobal.folders,
        globalFolder |-> withGlobal.globalFolder,
        foldersToInit |-> foldersToInit]

\* Call c resumes with the discovered config files, builds the new
\* services and runs to the await of their initialize() promises.  The
\* files of the file system are drawn from fileChoices, the
\* dprint.checkUserLevelConfig setting from checkChoices, and whether the
\* ancestor directories of the workspace folders hold a config file from
\* ancestorChoices.
ResumeAfterDiscoverWith(c, fileChoices, checkChoices, ancestorChoices) ==
    /\ calls[c].pc = "awaitDiscover"
    /\ IF workspaceFolders.isNull
       THEN /\ calls' = [calls EXCEPT ![c] = EndCall(@, "TypeError", <<>>)]
            /\ lastOp' = Internal
            /\ UNCHANGED <<svc, folders, globalFolder>>
       ELSE \E files \in fileChoices, check \in checkChoices,
               ancestors \in {IF a THEN Range(workspaceFolders.list) ELSE {} :
                                 a \in ancestorChoices} :
                LET configFiles == DiscoverWorkspaceConfigFiles(check, files)
                    b == Built(c, configFiles, ancestors)
                IN /\ svc' = b.svc
                   /\ folders' = b.folders
                   /\ globalFolder' = b.globalFolder
                   /\ calls' = [calls EXCEPT
                         ![c].pc = "awaitInit",
                         ![c].map = <<>>,
                         ![c].toInit = b.foldersToInit,
                         ![c].settled = [k \in 1..Len(b.foldersToInit) |-> "pending"],
                         ![c].seen = [discovered |-> TRUE,
                                      map |-> calls[c].map,
                                      files |-> files,
                                      configFiles |-> configFiles,
                                      ancestors |-> ancestors,
                                      checkUserLevelConfig |-> check,
                                      unresolved |-> calls[c].seen.unresolved]]
                   /\ Len(b.svc) <= MaxServices
                   /\ lastOp' = Internal
    /\ UNCHANGED <<workspaceFolders, disposed, storesDisposed>>

\* The router is explored with configPath unset and no config file in an
\* ancestor directory; the settings and the ancestors vary where a single
\* call is explored.
ResumeAfterDiscover(c) ==
    ResumeAfterDiscoverWith(c, DiscoverChoices, {TRUE}, {FALSE})

InitializeFolders == InitializeFoldersWith({"unset"})

\* The initialize() that call c started on the k-th service settles.
InitializeSettles(c, k) ==
    /\ calls[c].pc \in {"awaitInit", "done"}
    /\ k \in 1..Len(calls[c].toInit)
    /\ calls[c].settled[k] = "pending"
    /\ \E o \in InitOutcomes(svc[calls[c].toInit[k]]) :
          /\ calls' = [calls EXCEPT ![c].settled[k] = o]
          /\ svc' = [svc EXCEPT ![calls[c].toInit[k]] = SettleInitialize(@, o)]
    /\ lastOp' = Internal
    /\ UNCHANGED <<workspaceFolders, folders, globalFolder, disposed,
                   storesDisposed>>

\* The folder infos of the services that initialized and report editor info.
EditorInfos(sv, toInit, settled) ==
    LET keep == {k \in 1..Len(toInit) :
                    settled[k] # "failed" /\ sv[toInit[k]].editorInfo}
        ks == SelectSeq([k \in 1..Len(toInit) |-> k], LAMBDA k : k \in keep)
    IN [i \in 1..Len(ks) |-> toInit[ks[i]]]

\* Some initialize() that the call awaits has raised: Promise.all rejects.
InitRejected(call) ==
    \E k \in 1..Len(call.toInit) : call.settled[k] = "threw"

\* Call c resumes from Promise.all and ends: after every initialize() has
\* settled, or, with the error raised, as soon as one has raised (the
\* others keep running).
ResumeAfterInit(c) ==
    /\ calls[c].pc = "awaitInit"
    /\ \/ InitRejected(calls[c])
       \/ \A k \in 1..Len(calls[c].toInit) : calls[c].settled[k] # "pending"
    /\ IF InitRejected(calls[c])
       THEN /\ calls' = [calls EXCEPT ![c] = EndCall(@, "Error", <<>>)]
            /\ lastOp' = Internal
       ELSE IF AssertNotDisposedThrows(disposed)
       THEN /\ calls' = [calls EXCEPT ![c] = EndCall(@, "Disposed", <<>>)]
            /\ lastOp' = Internal
       ELSE /\ calls' = [calls EXCEPT ![c] =
                            EndCall(@, "returned",
                                    EditorInfos(svc, calls[c].toInit,
                                                calls[c].settled))]
            /\ lastOp' = Internal
    /\ UNCHANGED <<workspaceFolders, svc, folders, globalFolder, disposed,
                   storesDisposed>>

\* reInitialize() resumes from its await of call c, which has ended: with
\* the folder infos returned it goes on, a fault of faults raising an
\* error there; the error the call raised it catches.
ReInitializeResumesWith(c, faults) ==
    /\ calls[c].pc = "done"
    /\ calls[c].reInit.settled = "pending"
    /\ LET resumed == [calls EXCEPT ![c].reInit = ReInitialize(calls[c].outcome)]
       IN IF calls[c].outcome = "returned"
          THEN \E fault \in faults :
                  calls' = ReInitializeReturned(resumed, c, svc, fault)
          ELSE calls' = resumed
    /\ lastOp' = Internal
    /\ UNCHANGED <<workspaceFolders, svc, folders, globalFolder, disposed,
                   storesDisposed>>

ReInitializeResumes(c) == ReInitializeResumesWith(c, {"none"})

\* dispose() of the WorkspaceService, called on it directly.
DisposeWorkspaceService ==
    LET cleared == ClearFolders(svc, folders, globalFolder)
    IN /\ svc' = cleared.svc
       /\ folders' = cleared.folders
       /\ globalFolder' = cleared.globalFolder
       /\ disposed' = TRUE
       /\ calls' = [c \in DOMAIN calls |->
                       IF InProgress(calls[c])
                       THEN [calls[c] EXCEPT !.disposedDuring = TRUE]
                       ELSE calls[c]]
       /\ lastOp' = Op("WorkspaceService.dispose", disposed, None, NoService,
                       0, "returned")
       /\ UNCHANGED <<workspaceFolders, storesDisposed>>

\* dispose() of the backend: the formatter registration is disposed,
\* then, with the resource stores, the WorkspaceService.  The resource
\* stores dispose what they hold on their first dispose(), also when the
\* WorkspaceService was disposed directly before.  Whether they still
\* hold it on a later dispose() is not fixed by context.ts: either the
\* WorkspaceService is disposed once more (again) or it is left as it is.
Dispose ==
    \E again \in IF storesDisposed THEN BOOLEAN ELSE {TRUE} :
        LET cleared == IF again
                       THEN ClearFolders(svc, folders, globalFolder)
                       ELSE [svc |-> svc, folders |-> folders,
                             globalFolder |-> globalFolder]
        IN /\ svc' = cleared.svc
           /\ folders' = cleared.folders
           /\ globalFolder' = cleared.globalFolder
           /\ disposed' = (disposed \/ again)
           /\ storesDisposed' = TRUE
           /\ calls' = [c \in DOMAIN calls |->
                           IF InProgress(calls[c])
                           THEN [calls[c] EXCEPT
                                   !.disposedDuring = @ \/ again]
                           ELSE DisposeFormatter(calls)[c]]
           /\ lastOp' = Op("dispose", disposed, None, NoService, 0,
                           "returned")
           /\ UNCHANGED workspaceFolders

\* provideDocumentFormattingEdits(document): the request goes to the
\* service #getFolderForUri picks, which serves it (starting its
\* formatter process when none is alive), or returns undefined.
ProvideDocumentFormattingEdits(doc) ==
    /\ IF GetFolderForUriThrows(svc, folders, globalFolder, doc)
       THEN /\ lastOp' = Op("format", disposed, doc, NoService, 0,
                            "TypeError")
            /\ UNCHANGED svc
       ELSE LET folder == GetFolderForUri(svc, folders, globalFolder, doc)
            IN IF folder = NoService
               THEN /\ lastOp' = Op("format", disposed, doc, NoService, 0,
                                    "undefined")
                    /\ UNCHANGED svc
               ELSE /\ lastOp' = Op("format", disposed, doc, folder, 0,
                                    "dispatched")
                    /\ svc' = [svc EXCEPT ![folder] = ServeRequest(@)]
    /\ UNCHANGED <<workspaceFolders, folders, globalFolder, disposed,
                   storesDisposed, calls>>

\* The loop of getEditorServicePid from position i on.
RECURSIVE FirstPid(_, _, _)
FirstPid(sv, tbl, i) ==
    IF i > Len(tbl) THEN 0
    ELSE IF ServicePid(sv, tbl[i]) # 0 THEN ServicePid(sv, tbl[i])
    ELSE FirstPid(sv, tbl, i + 1)

\* Mutant of EditorServicePid: the global folder is asked first.
EditorServicePidGlobalFirst(sv, tbl, g) ==
    IF g # NoService /\ ServicePid(sv, g) # 0 THEN ServicePid(sv, g)
    ELSE FirstPid(sv, tbl, 1)

\* getEditorServicePid(): 0 stands for undefined.
EditorServicePid(sv, tbl, g) ==
    IF FirstPid(sv, tbl, 1) # 0 THEN FirstPid(sv, tbl, 1)
    ELSE IF g # NoService THEN ServicePid(sv, g) ELSE 0

GetEditorServicePid ==
    /\ lastOp' = Op("getEditorServicePid", disposed, None, NoService,
                    EditorServicePid(svc, folders, globalFolder), "returned")
    /\ UNCHANGED <<workspaceFolders, svc, folders, globalFolder, disposed,
                   storesDisposed, calls>>

Next ==
    \/ InitializeFolders
    \/ \E c \in DOMAIN calls : ResumeAfterResolve(c)
    \/ \E c \in DOMAIN calls : ResumeAfterDiscover(c)
    \/ \E c \in DOMAIN calls, k \in 1..MaxServices : InitializeSettles(c, k)
    \/ \E c \in DOMAIN calls : ResumeAfterInit(c)
    \/ \E c \in DOMAIN calls : ReInitializeResumes(c)
    \/ Dispose
    \/ DisposeWorkspaceService
    \/ \E doc \in RequestDocuments : ProvideDocumentFormattingEdits(doc)
    \/ GetEditorServicePid

Spec == Init /\ [][Next]_vars

\* ------------------------------------------- the routing function alone

\* The roots folder services of a drawn table are bound to.
RouteRoots == {RootA, RootAB, RootAX}

RECURSIVE Dedupe(_)
Dedupe(s) ==
    IF s = <<>> THEN <<>>
    ELSE LET d == Dedupe(SubSeq(s, 1, Len(s) - 1))
         IN IF s[Len(s)] \in Range(d) THEN d ELSE Append(d, s[Len(s)])

\* A service that call 1 built and whose initialize() returned true.
ReadyService(folder, config, useCwd) ==
    [NewService(folder, config, useCwd, 1) EXCEPT
        !.status = "ready", !.initCount = 1, !.editorInfo = TRUE,
        !.running = TRUE]

\* The router after one initializeFolders call that left the folder table
\* bound to roots, in that order (a root once per config file found in
\* it), with a global folder or without.
InitRouteWith(maxLen) ==
    \E roots \in SeqsUpTo(RouteRoots, maxLen), g \in BOOLEAN :
        LET list == Dedupe(roots)
            n == Len(roots)
            all == [i \in 1..(n + (IF g THEN 1 ELSE 0)) |-> i]
        IN /\ workspaceFolders = FolderList(list)
           /\ svc = [i \in DOMAIN all |->
                        IF i <= n
                        THEN ReadyService(roots[i], roots[i] \o <<"/", "d">>, FALSE)
                        ELSE ReadyService(IF Len(list) > 0 THEN list[1] ELSE None,
                                          ConfU, TRUE)]
           /\ folders = [i \in 1..n |-> i]
           /\ globalFolder = IF g THEN n + 1 ELSE NoService
           /\ disposed = FALSE
           /\ storesDisposed = FALSE
           /\ calls = ReInitializeReturned(
                          <<[EndCall(NewCall(<<>>, {}), "returned", all) EXCEPT
                                !.toInit = all,
                                !.settled = [i \in DOMAIN all |-> "ok"],
                                !.reInit = ReInitialize("returned")]>>,
                          1, svc, "none")
           /\ lastOp = Op("none", FALSE, None, NoService, 0, "none")

InitRoute == InitRouteWith(MaxTable)

NextRoute ==
    \/ \E doc \in Documents : ProvideDocumentFormattingEdits(doc)
    \/ GetEditorServicePid

SpecRoute == InitRoute /\ [][NextRoute]_vars

\* ------------------------------ the backend: reInitialize and dispose

\* What discovery may return: nothing, a config file on which
\* initialize() raises, or the user-level config file.
BackendDiscoverChoices == {<<>>, <<ConfB>>, <<ConfU>>}

\* What may raise an error when reInitialize() goes on after
\* initializeFolders returned.
Faults == {"none", "setFolderInfos", "register"}

InitBackend ==
    /\ workspaceFolders = FolderList(<<RootB>>)
    /\ svc = <<>>
    /\ folders = <<>>
    /\ globalFolder = NoService
    /\ disposed = FALSE
    /\ storesDisposed = FALSE
    /\ calls = <<>>
    /\ lastOp = Op("none", FALSE, None, NoService, 0, "none")

\* reInitialize() calls, which may overlap, and dispose() of the backend.
NextBackend ==
    \/ InitializeFoldersWith({"unset"})
    \/ \E c \in DOMAIN calls : ResumeAfterResolve(c)
    \/ \E c \in DOMAIN calls :
          ResumeAfterDiscoverWith(c, BackendDiscoverChoices, {TRUE}, BOOLEAN)
    \/ \E c \in DOMAIN calls, k \in 1..MaxServices : InitializeSettles(c, k)
    \/ \E c \in DOMAIN calls : ResumeAfterInit(c)
    \/ \E c \in DOMAIN calls : ReInitializeResumesWith(c, Faults)
    \/ Dispose

SpecBackend == InitBackend /\ [][NextBackend]_vars

\* ------------------------------------- formatter processes that are killed

\* The formatter process of the bound service id is killed from outside.
\* The step records the pid getEditorServicePid reported before the kill.
KillFormatterProcess(id) ==
    /\ id \in InTable(folders, globalFolder)
    /\ svc[id].running
    /\ svc[id].restarts < MaxRestarts
    /\ svc' = [svc EXCEPT ![id] = KillService(@)]
    /\ lastOp' = Op("kill", disposed, None, id,
                    EditorServicePid(svc, folders, globalFolder), "killed")
    /\ UNCHANGED <<workspaceFolders, folders, globalFolder, disposed,
                   storesDisposed, calls>>

\* provideDocumentFormattingEdits(document), the service picked serving
\* the request.  A request that follows a kill keeps, in killed and pid,
\* the service whose process was killed and the pid reported before the
\* kill.
FormatDocument(doc) ==
    LET folder == GetFolderForUri(svc, folders, globalFolder, doc)
        afterKill == lastOp.op = "kill"
        Request(target, outcome) ==
            [op |-> "format", wasDisposed |-> disposed, doc |-> doc,
             target |-> target, outcome |-> outcome,
             killed |-> IF afterKill THEN lastOp.target ELSE NoService,
             pid |-> IF afterKill THEN lastOp.pid ELSE 0]
    IN /\ IF GetFolderForUriThrows(svc, folders, globalFolder, doc)
          THEN /\ lastOp' = Request(NoService, "TypeError")
               /\ svc' = svc
          ELSE IF folder = NoService
          THEN /\ lastOp' = Request(folder, "undefined")
               /\ svc' = svc
          ELSE /\ lastOp' = Request(folder, IF svc[folder].running THEN "served"
                                            ELSE "restarted")
               /\ svc' = [svc EXCEPT ![folder] = ServeRequest(@)]
       /\ UNCHANGED <<workspaceFolders, folders, globalFolder, disposed,
                   storesDisposed, calls>>

NextCrash ==
    \/ \E id \in 1..MaxServices : KillFormatterProcess(id)
    \/ \E doc \in Documents : FormatDocument(doc)
    \/ GetEditorServicePid

\* Tables of up to MaxRoots folder bindings, with a global folder or not.
InitCrash == InitRouteWith(MaxRoots)

SpecCrash == InitCrash /\ [][NextCrash]_vars

\* ------------------------------- one initializeFolders call, wider inputs

\* The file or directory uri lies below the directory root.
Inside(uri, root) == StartsWith(uri, root \o <<"/">>)

\* The workspaces: no workspace open, an empty list, one folder, two
\* unrelated folders, and two siblings the name of one of which begins
\* with the name of the other.
BuildWorkspaces ==
    {NullFolders, FolderList(<<>>), FolderList(<<RootA>>),
     FolderList(<<RootA, RootB>>), FolderList(<<RootA, RootAX>>)}

BuildConfigs == {ConfA, ConfAB, ConfAX, ConfB, ConfU, ConfV}

\* What the file system may hold for discovery: up to MaxFiles distinct
\* config files, each below a workspace folder or in the user-level
\* config directory.
BuildDiscoverChoices(list) ==
    {s \in SeqsUpTo(BuildConfigs, MaxFiles) :
        /\ \A i, j \in 1..Len(s) : i # j => s[i] # s[j]
        /\ \A i \in 1..Len(s) :
              \/ s[i] \in UserDirConfigs
              \/ \E k \in 1..Len(list) : Inside(s[i], list[k])}

InitBuild ==
    /\ workspaceFolders \in BuildWorkspaces
    /\ svc = <<>>
    /\ folders = <<>>
    /\ globalFolder = NoService
    /\ disposed = FALSE
    /\ storesDisposed = FALSE
    /\ calls = <<>>
    /\ lastOp = Op("none", FALSE, None, NoService, 0, "none")

\* A single initializeFolders call on a fresh router, run to its end, the
\* pid of the editor service being asked for at any time.
NextBuild ==
    \/ calls = <<>> /\ InitializeFoldersWith(ConfigPathSettings)
    \/ \E c \in DOMAIN calls : ResumeAfterResolve(c)
    \/ \E c \in DOMAIN calls :
          ResumeAfterDiscoverWith(c, BuildDiscoverChoices(workspaceFolders.list),
                                  BOOLEAN, BOOLEAN)
    \/ \E c \in DOMAIN calls, k \in 1..MaxServices : InitializeSettles(c, k)
    \/ \E c \in DOMAIN calls : ResumeAfterInit(c)
    \/ \E c \in DOMAIN calls : ReInitializeResumes(c)
    \/ GetEditorServicePid

SpecBuild == InitBuild /\ [][NextBuild]_vars

\* ----------------------------------------------- isUserLevelConfig alone

UserLevelRoots == {RootA, RootAB, RootAX, RootB}
UserLevelConfigs == BuildConfigs \cup {ConfE}

\* The folder roots handed to isUserLevelConfig, in workspaceFolders.
InitUserLevel ==
    \E roots \in SeqsUpTo(UserLevelRoots, MaxRoots) :
        /\ workspaceFolders = FolderList(roots)
        /\ svc = <<>>
        /\ folders = <<>>
        /\ globalFolder = NoService
        /\ disposed = FALSE
        /\ storesDisposed = FALSE
        /\ calls = <<>>
        /\ lastOp = Op("none", FALSE, None, NoService, 0, "none")

\* isUserLevelConfig(cf.toString(), roots as strings) is called; lastOp
\* keeps the config in doc and the result in outcome.
IsUserLevelConfigCall(cf) ==
    /\ LET list == workspaceFolders.list
           uris == [i \in 1..Len(list) |-> ToString(list[i])]
       IN lastOp' = Op("isUserLevelConfig", disposed, cf, NoService, 0,
                       IF IsUserLevelConfig(ToString(cf), uris)
                       THEN "true" ELSE "false")
    /\ UNCHANGED <<workspaceFolders, svc, folders, globalFolder, disposed,
                   storesDisposed, calls>>

NextUserLevel == \E cf \in UserLevelConfigs : IsUserLevelConfigCall(cf)

SpecUserLevel == InitUserLevel /\ [][NextUserLevel]_vars

\* ------------------------------------------- getUserConfigDirectory alone

\* Path strings are sequences of pieces: a separator or a name.
\* An environment variable is unset (undefined) or holds a string.
Unset == [set |-> FALSE, value |-> <<>>]
Value(p) == [set |-> TRUE, value |-> p]

\* `if (v)` on a string or undefined: set and not the empty string.
Truthy(v) == v.set /\ v.value # <<>>

\* A path string is a sequence of pieces: a separator ("/" or "\\"), a
\* dot, a colon, or a word, which is a run of characters that are none
\* of these. Letters are the words of one letter that occur in the paths
\* here, OneCharWords the words of one character, ReservedNames the words
\* that, in upper case, are device names reserved by Windows.
Letters == {"C", "c", "u", "a", "b", "x", "y"}
OneCharWords == Letters \cup {"?"}
ReservedNames == {"CON", "nul", "COM1"}

\* isPathSeparator and isPosixPathSeparator of path
IsPathSeparator(x) == x \in {"/", "\\"}
IsPosixPathSeparator(x) == x = "/"

\* The segments of path between the separators seps, the empty ones
\* included.
RECURSIVE Split(_, _)
Split(path, seps) ==
    IF path = <<>> THEN <<<<>>>>
    ELSE LET rest == Split(Tail(path), seps)
         IN IF Head(path) \in seps THEN <<<<>>>> \o rest
            ELSE <<<<Head(path)>> \o Head(rest)>> \o Tail(rest)

\* The loop of normalizeString over the segments: an empty segment and
\* "." are dropped; ".." removes the segment before it unless there is
\* none or it is ".." itself, and then stays when allowAboveRoot and is
\* dropped otherwise; any other segment is kept.
RECURSIVE NormalizeSegments(_, _, _)
NormalizeSegments(res, segments, allowAboveRoot) ==
    IF segments = <<>> THEN res
    ELSE LET segment == Head(segments)
             next ==
                 IF segment = <<>> \/ segment = <<".">> THEN res
                 ELSE IF segment = <<".", ".">>
                 THEN IF res # <<>> /\ res[Len(res)] # <<".", ".">>
                      THEN SubSeq(res, 1, Len(res) - 1)
                      ELSE IF allowAboveRoot THEN Append(res, segment)
                      ELSE res
                 ELSE Append(res, segment)
         IN NormalizeSegments(next, Tail(segments), allowAboveRoot)

\* The segments put one after the other, separator between them.
RECURSIVE JoinSegments(_, _)
JoinSegments(segments, separator) ==
    IF segments = <<>> THEN <<>>
    ELSE IF Len(segments) = 1 THEN Head(segments)
    ELSE Head(segments) \o <<separator>> \o JoinSegments(Tail(segments), separator)

\* normalizeString(path, allowAboveRoot, separator, isPathSeparator)
NormalizeString(path, allowAboveRoot, separator, seps) ==
    JoinSegments(NormalizeSegments(<<>>, Split(path, seps), allowAboveRoot), separator)

\* The number of pieces at the start of path that are separators, and
\* that are none.
RECURSIVE LeadingSeparators(_)
LeadingSeparators(path) ==
    IF path # <<>> /\ IsPathSeparator(Head(path))
    THEN 1 + LeadingSeparators(Tail(path))
    ELSE 0

RECURSIVE LeadingNames(_)
LeadingNames(path) ==
    IF path # <<>> /\ ~IsPathSeparator(Head(path))
    THEN 1 + LeadingNames(Tail(path))
    ELSE 0

\* path.indexOf(':') counted in pieces from 1; 0 when there is no colon.
RECURSIVE ColonIndex(_)
ColonIndex(path) ==
    IF path = <<>> THEN 0
    ELSE IF Head(path) = ":" THEN 1
    ELSE LET rest == ColonIndex(Tail(path))
         IN IF rest = 0 THEN 0 ELSE rest + 1

\* isWindowsReservedName(path, colonIndex): path.slice(0, colonIndex)
\* is, in upper case, a reserved name. With a colon that is the text
\* before the first colon. Without one colonIndex is -1 (0 here) and
\* the slice is the path less its last character: a reserved name
\* followed by one separator or dot (no word here is a reserved name
\* with one more character).
IsWindowsReservedName(path, colonIndex) ==
    IF colonIndex = 0
    THEN /\ Len(path) = 2
         /\ path[1] \in ReservedNames
         /\ path[2] \in {"/", "\\", "."}
    ELSE /\ colonIndex = 2
         /\ path[1] \in ReservedNames

\* The root path.win32.normalize finds at the start of a path of two or
\* more characters: the device (none when isDevice is FALSE), whether
\* the path is absolute, the number of pieces the root takes, and, for a
\* UNC root with nothing behind the share, the whole result in early.
\* A path that starts with two separators has a UNC root, or the root of
\* the device namespace when the server is "." or "?"; one that starts
\* with no separator has a drive letter and its colon, or a reserved
\* device name and its colon, as its device.
Win32Root(path) ==
    LET len == Len(path)
        plain == [isDevice |-> FALSE, device |-> <<>>, isAbsolute |-> FALSE,
                  rootEnd |-> 0, isEarly |-> FALSE, early |-> <<>>]
    IN IF IsPathSeparator(path[1])
       THEN IF len > 1 /\ IsPathSeparator(path[2])
            THEN LET n1 == LeadingNames(SubSeq(path, 3, len))
                     firstPart == SubSeq(path, 3, 2 + n1)
                     n2 == LeadingSeparators(SubSeq(path, 3 + n1, len))
                     n3 == LeadingNames(SubSeq(path, 3 + n1 + n2, len))
                     last == 2 + n1 + n2
                     j == last + n3
                     share == SubSeq(path, last + 1, j)
                 IN IF n1 > 0 /\ 2 + n1 < len /\ last < len
                    THEN IF firstPart \in {<<".">>, <<"?">>}
                         THEN [plain EXCEPT !.isDevice = TRUE, !.isAbsolute = TRUE,
                                   !.device = <<"\\", "\\">> \o firstPart,
                                   !.rootEnd = 4]
                         ELSE IF j = len
                         THEN [plain EXCEPT !.isAbsolute = TRUE, !.isEarly = TRUE,
                                   !.early = <<"\\", "\\">> \o firstPart \o <<"\\">>
                                                \o share \o <<"\\">>]
                         ELSE [plain EXCEPT !.isDevice = TRUE, !.isAbsolute = TRUE,
                                   !.device = <<"\\", "\\">> \o firstPart \o <<"\\">> \o share,
                                   !.rootEnd = j]
                    ELSE [plain EXCEPT !.isAbsolute = TRUE]
            ELSE [plain EXCEPT !.isAbsolute = TRUE, !.rootEnd = 1]
       ELSE IF path[1] \in Letters /\ len > 1 /\ path[2] = ":"
       THEN IF len > 2 /\ IsPathSeparator(path[3])
            THEN [plain EXCEPT !.isDevice = TRUE, !.device = SubSeq(path, 1, 2),
                      !.isAbsolute = TRUE, !.rootEnd = 3]
            ELSE [plain EXCEPT !.isDevice = TRUE, !.device = SubSeq(path, 1, 2),
                      !.rootEnd = 2]
       ELSE IF IsWindowsReservedName(path, ColonIndex(path)) /\ ColonIndex(path) > 1
       THEN [plain EXCEPT !.isDevice = TRUE, !.device = SubSeq(path, 1, 2),
                 !.rootEnd = 2]
       ELSE plain

\* path.win32.normalize(path)
Win32Normalize(path) ==
    LET len == Len(path)
    IN IF len = 0 THEN <<".">>
       ELSE IF len = 1 /\ path[1] \in {"/", "\\", ".", ":"} \cup OneCharWords
       THEN IF IsPosixPathSeparator(path[1]) THEN <<"\\">> ELSE path
       ELSE LET root == Win32Root(path)
                isAbsolute == root.isAbsolute
                normalized ==
                    IF root.rootEnd < len
                    THEN NormalizeString(SubSeq(path, root.rootEnd + 1, len),
                                         ~isAbsolute, "\\", {"/", "\\"})
                    ELSE <<>>
                dotted == IF normalized = <<>> /\ ~isAbsolute THEN <<".">>
                          ELSE normalized
                tail == IF dotted # <<>> /\ IsPathSeparator(path[len])
                        THEN dotted \o <<"\\">>
                        ELSE dotted
                colonIndex == ColonIndex(path)
            IN IF root.isEarly THEN root.early
               ELSE IF /\ ~isAbsolute
                       /\ ~root.isDevice
                       /\ colonIndex # 0
                       /\ \/ Len(tail) >= 2 /\ tail[1] \in Letters /\ tail[2] = ":"
                          \/ \E i \in 1..len :
                                /\ path[i] = ":"
                                /\ (i = len \/ IsPathSeparator(path[i + 1]))
               THEN <<".", "\\">> \o tail
               ELSE IF IsWindowsReservedName(path, colonIndex)
               THEN <<".", "\\">> \o root.device \o tail
               ELSE IF ~root.isDevice
               THEN (IF isAbsolute THEN <<"\\">> ELSE <<>>) \o tail
               ELSE root.device \o (IF isAbsolute THEN <<"\\">> ELSE <<>>) \o tail

\* path.posix.normalize(path)
PosixNormalize(path) ==
    IF path = <<>> THEN <<".">>
    ELSE LET isAbsolute == path[1] = "/"
             trailingSeparator == path[Len(path)] = "/"
             normalized == NormalizeString(path, ~isAbsolute, "/", {"/"})
         IN IF normalized = <<>>
            THEN IF isAbsolute THEN <<"/">>
                 ELSE IF trailingSeparator THEN <<".", "/">>
                 ELSE <<".">>
            ELSE (IF isAbsolute THEN <<"/">> ELSE <<>>)
                    \o normalized
                    \o (IF trailingSeparator THEN <<"/">> ELSE <<>>)

\* The parts put one after the other, separator between them.
Concat(parts, separator) == JoinSegments(parts, separator)

\* path.win32.join: the parts that are not empty are put together with
\* backslashes; unless the first of them begins with exactly two
\* separators and a name (a UNC root), two or more separators at the
\* start become one backslash; the result is normalised.
Win32Join(parts) ==
    LET path == SelectSeq(parts, LAMBDA arg : arg # <<>>)
    IN IF path = <<>> THEN <<".">>
       ELSE LET firstPart == path[1]
                joined == Concat(path, "\\")
                needsReplace ==
                    ~(/\ Len(firstPart) > 2
                      /\ IsPathSeparator(firstPart[1])
                      /\ IsPathSeparator(firstPart[2])
                      /\ ~IsPathSeparator(firstPart[3]))
                slashCount == LeadingSeparators(joined)
            IN IF needsReplace /\ slashCount >= 2
               THEN Win32Normalize(<<"\\">> \o SubSeq(joined, slashCount + 1, Len(joined)))
               ELSE Win32Normalize(joined)

\* path.posix.join
PosixJoin(parts) ==
    LET path == SelectSeq(parts, LAMBDA arg : arg # <<>>)
    IN IF path = <<>> THEN <<".">>
       ELSE PosixNormalize(Concat(path, "/"))

\* const join = platform === "win32" ? path.win32.join : path.posix.join
Join(platform, parts) ==
    IF platform = "win32" THEN Win32Join(parts) ELSE PosixJoin(parts)

\* Mutant of GetUserConfigDirectory: a variable set to the empty string
\* is used.
GetUserConfigDirectoryEmptyUsed(home, platform, env) ==
    IF platform = "win32"
    THEN IF env.APPDATA.set
         THEN Join(platform, <<env.APPDATA.value, <<"dprint">>>>)
         ELSE Join(platform, <<home, <<"AppData">>, <<"Roaming">>, <<"dprint">>>>)
    ELSE IF env.XDG_CONFIG_HOME.set
         THEN Join(platform, <<env.XDG_CONFIG_HOME.value, <<"dprint">>>>)
         ELSE Join(platform, <<home, <<".", "config">>, <<"dprint">>>>)

\* getUserConfigDirectory({homedir, platform, env})
GetUserConfigDirectory(home, platform, env) ==
    IF platform = "win32"
    THEN IF Truthy(env.APPDATA)
         THEN Join(platform, <<env.APPDATA.value, <<"dprint">>>>)
         ELSE Join(platform, <<home, <<"AppData">>, <<"Roaming">>, <<"dprint">>>>)
    ELSE IF Truthy(env.XDG_CONFIG_HOME)
         THEN Join(platform, <<env.XDG_CONFIG_HOME.value, <<"dprint">>>>)
         ELSE Join(platform, <<home, <<".", "config">>, <<"dprint">>>>)

Platforms == {"win32", "linux", "darwin"}

\* /home/u, /home/u/, C:\Users\u, /a/../b, ./rel, the empty string,
\* \\srv\share\u, C:u and ..
HomeDirs ==
    {<<"/", "home", "/", "u">>, <<"/", "home", "/", "u", "/">>,
     <<"C", ":", "\\", "Users", "\\", "u">>,
     <<"/", "a", "/", ".", ".", "/", "b">>,
     <<".", "/", "rel">>, <<>>,
     <<"\\", "\\", "srv", "\\", "share", "\\", "u">>,
     <<"C", ":", "u">>, <<".", ".">>}

\* unset, "", /custom, /custom//config/, C:\Roaming, C:/Roaming,
\* \\srv\share\u, //srv/share/u, \\srv, /a/./b/../c, .., ../x, custom,
\* ///x, C:Roaming, C:, c:.\x, \\.\pipe, \\?\C:\x, \\?\COM1:\x,
\* \\srv\share\..\..\x, CON:x, nul:\x, a.b:c, \x\..\..\y\ and .config
EnvValues ==
    {Unset, Value(<<>>), Value(<<"/", "custom">>),
     Value(<<"/", "custom", "/", "/", "config", "/">>),
     Value(<<"C", ":", "\\", "Roaming">>), Value(<<"C", ":", "/", "Roaming">>),
     Value(<<"\\", "\\", "srv", "\\", "share", "\\", "u">>),
     Value(<<"/", "/", "srv", "/", "share", "/", "u">>),
     Value(<<"\\", "\\", "srv">>),
     Value(<<"/", "a", "/", ".", "/", "b", "/", ".", ".", "/", "c">>),
     Value(<<".", ".">>), Value(<<".", ".", "/", "x">>),
     Value(<<"custom">>), Value(<<"/", "/", "/", "x">>),
     Value(<<"C", ":", "Roaming">>), Value(<<"C", ":">>),
     Value(<<"c", ":", ".", "\\", "x">>),
     Value(<<"\\", "\\", ".", "\\", "pipe">>),
     Value(<<"\\", "\\", "?", "\\", "C", ":", "\\", "x">>),
     Value(<<"\\", "\\", "?", "\\", "COM1", ":", "\\", "x">>),
     Value(<<"\\", "\\", "srv", "\\", "share", "\\", ".", ".", "\\", ".", ".", "\\", "x">>),
     Value(<<"CON", ":", "x">>), Value(<<"nul", ":", "\\", "x">>),
     Value(<<"a", ".", "b", ":", "c">>),
     Value(<<"\\", "x", "\\", ".", ".", "\\", ".", ".", "\\", "y", "\\">>),
     Value(<<".", "config">>)}

\* The options of one call are drawn: a home directory, a platform and
\* the two environment variables.
InitUserDir ==
    \E home \in HomeDirs, platform \in Platforms, a \in EnvValues, x \in EnvValues :
        /\ workspaceFolders = NullFolders
        /\ svc = <<>>
        /\ folders = <<>>
        /\ globalFolder = NoService
        /\ disposed = FALSE
        /\ storesDisposed = FALSE
        /\ calls = <<>>
        /\ lastOp = Op("options", FALSE,
                       [homedir |-> home, platform |-> platform,
                        env |-> [APPDATA |-> a, XDG_CONFIG_HOME |-> x]],
                       NoService, 0, "none")

\* getUserConfigDirectory is called with the options; lastOp keeps them
\* in doc and the directory returned in outcome.
GetUserConfigDirectoryCall ==
    /\ lastOp.op = "options"
    /\ lastOp' = Op("getUserConfigDirectory", disposed, lastOp.doc, NoService, 0,
                    GetUserConfigDirectory(lastOp.doc.homedir, lastOp.doc.platform,
                                           lastOp.doc.env))
    /\ UNCHANGED <<workspaceFolders, svc, folders, globalFolder, disposed,
                   storesDisposed, calls>>

NextUserDir == GetUserConfigDirectoryCall

SpecUserDir == InitUserDir /\ [][NextUserDir]_vars

\* ------------------------------------------ getCombinedDprintConfig alone

\* The white space String.prototype.trim removes: here the space, the
\* tab and the line feed.
WhiteSpace == {" ", "\t", "\n"}

\* String.prototype.trim on a string of pieces: the white space at both
\* ends is removed.
RECURSIVE TrimStart(_)
TrimStart(s) ==
    IF s # <<>> /\ Head(s) \in WhiteSpace THEN TrimStart(Tail(s)) ELSE s

RECURSIVE TrimEnd(_)
TrimEnd(s) ==
    IF s # <<>> /\ s[Len(s)] \in WhiteSpace
    THEN TrimEnd(SubSeq(s, 1, Len(s) - 1))
    ELSE s

Trim(s) == TrimEnd(TrimStart(s))

\* The replacement string of String.prototype.replace with a string
\* pattern: $$ inserts a dollar sign, $& the matched text, $` (the piece
\* "$BACKTICK") the text before the match and $' the text after it.
RECURSIVE ExpandReplacement(_, _, _, _)
ExpandReplacement(replacement, matched, before, after) ==
    IF replacement = <<>> THEN <<>>
    ELSE LET rest == ExpandReplacement(Tail(replacement), matched, before,
                                       after)
         IN IF Head(replacement) = "$$" THEN <<"$">> \o rest
            ELSE IF Head(replacement) = "$&" THEN matched \o rest
            ELSE IF Head(replacement) = "$BACKTICK" THEN before \o rest
            ELSE IF Head(replacement) = "$'" THEN after \o rest
            ELSE <<Head(replacement)>> \o rest

\* shellExpand(path, env): a path that starts with ~/ has this ~/
\* replaced by env.HOME (the empty string when HOME is not set) and a
\* slash; every other path is returned as it is.
ShellExpand(path, env) ==
    IF Len(path) >= 2 /\ path[1] = "~" /\ path[2] = "/"
    THEN LET home == IF env.HOME.set THEN env.HOME.value ELSE <<>>
             after == SubSeq(path, 3, Len(path))
         IN ExpandReplacement(home \o <<"/">>, <<"~", "/">>, <<>>, after)
               \o after
    ELSE path

\* getBool: value === true.  A raw setting is "true", "false",
\* "undefined", "null" or "other" (a value that is not a boolean).
GetBool(value) == value = "true"

\* getBoolWithDefault
GetBoolWithDefault(value, defaultValue) ==
    IF value \in {"null", "undefined"} THEN defaultValue ELSE value = "true"

\* getPath: undefined unless the setting is a string that is not blank.
GetPath(path, env) ==
    IF path.set /\ Len(Trim(path.value)) > 0
    THEN Value(ShellExpand(Trim(path.value), env))
    ELSE Unset

\* pathInfo: undefined, or a path and whether it comes from the workspace
\* or folder settings.
NoPathInfo == [set |-> FALSE, value |-> <<>>, isFromWorkspace |-> FALSE]

\* getPathInfo: rawPath is the effective dprint.path setting,
\* workspaceValue and folderValue are the values config.inspect reports
\* for the workspace and the folder settings; each is a string or not
\* set.
GetPathInfo(rawPath, workspaceValue, folderValue, env) ==
    IF rawPath.set /\ Len(Trim(rawPath.value)) > 0
    THEN LET isFromWorkspace ==
                 \/ workspaceValue.set /\ Len(Trim(workspaceValue.value)) > 0
                 \/ folderValue.set /\ Len(Trim(folderValue.value)) > 0
         IN [set |-> TRUE, value |-> ShellExpand(Trim(rawPath.value), env),
             isFromWorkspace |-> isFromWorkspace]
    ELSE NoPathInfo

\* getDprintConfig(scope), settings being the dprint settings of the scope
\* and env the environment of the process.
GetDprintConfig(settings, env) ==
    [pathInfo |-> GetPathInfo(settings.path, settings.workspaceValue,
                              settings.workspaceFolderValue, env),
     verbose |-> GetBool(settings.verbose),
     experimentalLsp |-> GetBool(settings.experimentalLsp),
     configPath |-> GetPath(settings.configPath, env),
     checkUserLevelConfig |-> GetBoolWithDefault(settings.checkUserLevelConfig, TRUE)]

\* Mutant of CombineFolder: a later folder's pathInfo and configPath
\* replace the ones already taken.
CombineFolderLastWins(combinedConfig, config) ==
    [pathInfo |-> IF config.pathInfo.set THEN config.pathInfo
                  ELSE combinedConfig.pathInfo,
     verbose |-> combinedConfig.verbose \/ config.verbose,
     experimentalLsp |-> combinedConfig.experimentalLsp \/ config.experimentalLsp,
     configPath |-> IF config.configPath.set THEN config.configPath
                    ELSE combinedConfig.configPath,
     checkUserLevelConfig |->
         combinedConfig.checkUserLevelConfig /\ config.checkUserLevelConfig]

\* The body of the loop of getCombinedDprintConfig for one folder whose
\* config is config.
CombineFolder(combinedConfig, config) ==
    [pathInfo |-> IF config.pathInfo.set /\ ~combinedConfig.pathInfo.set
                  THEN config.pathInfo ELSE combinedConfig.pathInfo,
     verbose |-> IF config.verbose THEN TRUE ELSE combinedConfig.verbose,
     experimentalLsp |-> IF config.experimentalLsp THEN TRUE
                         ELSE combinedConfig.experimentalLsp,
     configPath |-> IF config.configPath.set /\ ~combinedConfig.configPath.set
                    THEN config.configPath ELSE combinedConfig.configPath,
     checkUserLevelConfig |-> IF ~config.checkUserLevelConfig THEN FALSE
                              ELSE combinedConfig.checkUserLevelConfig]

RECURSIVE CombineLoop(_, _, _)
CombineLoop(combinedConfig, settingsList, env) ==
    IF settingsList = <<>> THEN combinedConfig
    ELSE CombineLoop(CombineFolder(combinedConfig,
                                   GetDprintConfig(Head(settingsList), env)),
                     Tail(settingsList), env)

\* getCombinedDprintConfig(folders), settingsList holding the dprint
\* settings of each folder in list order and env the environment of the
\* process.
GetCombinedDprintConfig(settingsList, env) ==
    CombineLoop([pathInfo |-> NoPathInfo, verbose |-> FALSE,
                 experimentalLsp |-> FALSE, configPath |-> Unset,
                 checkUserLevelConfig |-> TRUE],
                settingsList, env)

\* The folders of a list handed to getCombinedDprintConfig.
MaxFolders == 2

\* dprint.path as config.get and config.inspect report it, the folder
\* value going before the workspace value and that before the user
\* value: not set; blank in the workspace settings; " p " in the user
\* settings; q in the workspace settings; " ~/q" in the folder settings;
\* r in the folder settings and blank in the workspace settings.
PathSettings ==
    {[path |-> Unset, workspaceValue |-> Unset, workspaceFolderValue |-> Unset],
     [path |-> Value(<<" ", "\t">>), workspaceValue |-> Value(<<" ", "\t">>),
      workspaceFolderValue |-> Unset],
     [path |-> Value(<<" ", "p", " ">>), workspaceValue |-> Unset,
      workspaceFolderValue |-> Unset],
     [path |-> Value(<<"q">>), workspaceValue |-> Value(<<"q">>),
      workspaceFolderValue |-> Unset],
     [path |-> Value(<<" ", "~", "/", "q">>), workspaceValue |-> Unset,
      workspaceFolderValue |-> Value(<<" ", "~", "/", "q">>)],
     [path |-> Value(<<"r">>), workspaceValue |-> Value(<<" ">>),
      workspaceFolderValue |-> Value(<<"r">>)]}

\* dprint.configPath: not set, a tab and c and a line feed, ~/d, ~ and
\* ~name/d
ConfigPathValues ==
    {Unset, Value(<<"\t", "c", "\n">>), Value(<<"~", "/", "d">>),
     Value(<<"~">>), Value(<<"~name", "/", "d">>)}

\* The raw values of dprint.verbose, dprint.experimentalLsp and
\* dprint.checkUserLevelConfig a folder may have.
BoolSettings ==
    {[verbose |-> "true", experimentalLsp |-> "undefined",
      checkUserLevelConfig |-> "true"],
     [verbose |-> "false", experimentalLsp |-> "true",
      checkUserLevelConfig |-> "false"],
     [verbose |-> "undefined", experimentalLsp |-> "false",
      checkUserLevelConfig |-> "undefined"],
     [verbose |-> "other", experimentalLsp |-> "null",
      checkUserLevelConfig |-> "null"],
     [verbose |-> "true", experimentalLsp |-> "true",
      checkUserLevelConfig |-> "other"],
     [verbose |-> "null", experimentalLsp |-> "other",
      checkUserLevelConfig |-> "true"]}

\* The dprint settings a folder may have.
FolderSettings ==
    {[path |-> p.path, workspaceValue |-> p.workspaceValue,
      workspaceFolderValue |-> p.workspaceFolderValue,
      verbose |-> b.verbose, experimentalLsp |-> b.experimentalLsp,
      configPath |-> cp, checkUserLevelConfig |-> b.checkUserLevelConfig] :
        p \in PathSettings, b \in BoolSettings, cp \in ConfigPathValues}

\* env.HOME: not set, /home/u, and values with the patterns that
\* String.prototype.replace expands in a replacement string.
HomeValues ==
    {Unset, Value(<<"/", "home", "/", "u">>), Value(<<"/", "h", "$&">>),
     Value(<<"$'", "$$", "$BACKTICK">>)}

\* The folders, whose settings lastOp.doc holds in list order with the
\* environment of the process, before getCombinedDprintConfig is called.
InitCombined ==
    \E settingsList \in SeqsUpTo(FolderSettings, MaxFolders),
       home \in HomeValues :
        /\ workspaceFolders = FolderList(SubSeq(<<RootA, RootB, RootAB>>, 1,
                                                Len(settingsList)))
        /\ svc = <<>>
        /\ folders = <<>>
        /\ globalFolder = NoService
        /\ disposed = FALSE
        /\ storesDisposed = FALSE
        /\ calls = <<>>
        /\ lastOp = Op("settings", FALSE,
                       [folders |-> settingsList, env |-> [HOME |-> home]],
                       NoService, 0, "none")

\* getCombinedDprintConfig is called with the workspace folders; lastOp
\* keeps their settings in doc and the combined config in outcome.
GetCombinedDprintConfigCall ==
    /\ lastOp.op = "settings"
    /\ lastOp' = Op("getCombinedDprintConfig", disposed, lastOp.doc, NoService,
                    0, GetCombinedDprintConfig(lastOp.doc.folders,
                                               lastOp.doc.env))
    /\ UNCHANGED <<workspaceFolders, svc, folders, globalFolder, disposed,
                   storesDisposed, calls>>

NextCombined == GetCombinedDprintConfigCall

SpecCombined == InitCombined /\ [][NextCombined]_vars

\* ================================================================ claims

\* The positions of the folder table whose root is a prefix of the path.
Matching(doc) ==
    {i \in 1..Len(folders) :
        StartsWith(FsPath(doc), FsPath(ServiceUri(svc[folders[i]])))}

\* Call c waits for an initialize() it started.
InitPending(c) ==
    \/ calls[c].pc \in {"awaitResolve", "awaitDiscover"}
    \/ /\ calls[c].pc = "awaitInit"
       /\ \E k \in 1..Len(calls[c].toInit) : calls[c].settled[k] = "pending"

\* C1 (as claimed; the code violates it): while an initializeFolders call
\* has not yet seen every service of its new generation finish initialize(),
\* no service of the generation it found has been disposed.
C1_OldDisposedOnlyAfterNewInitialized ==
    \A c \in DOMAIN calls :
        (~disposed /\ InitPending(c)) =>
            \A id \in calls[c].prevGen : svc[id].disposeCount = 0

\* Call c, in progress, leaves the binding of old service id unchanged:
\* id is bound to a folder that is still a workspace folder, and what the
\* call has read so far gives that folder the config file id was built on.
Unaffected(c, id) ==
    LET old == svc[id]
        key == ToString(old.workspaceFolder)
        call == calls[c]
    IN /\ InProgress(call)
       /\ id \in call.prevGen
       /\ ~old.useConfigDirAsCwd
       /\ old.workspaceFolder \in Range(workspaceFolders.list)
       /\ call.pc = "awaitResolve" =>
             call.settings[key] =
                 IF old.configUri = ConfE THEN "resolvable" ELSE "unset"
       /\ call.pc = "awaitDiscover" =>
             (call.map[key] = ConfE) = (old.configUri = ConfE)
       /\ call.pc = "awaitInit" =>
             \E k \in 1..Len(call.toInit) :
                 /\ svc[call.toInit[k]].builtBy = c
                 /\ svc[call.toInit[k]].workspaceFolder = old.workspaceFolder
                 /\ svc[call.toInit[k]].configUri = old.configUri
                 /\ ~svc[call.toInit[k]].useConfigDirAsCwd

\* C2 (as claimed; the code violates it): a format request made while an
\* initializeFolders call runs, for a document inside a folder whose
\* binding the call leaves unchanged, goes to a service that is not
\* disposed and whose initialize() returned true.
C2_AtomicSwap ==
    (lastOp.op = "format" /\ ~disposed) =>
        \A c \in DOMAIN calls :
            (\E id \in DOMAIN svc :
                /\ Unaffected(c, id)
                /\ StartsWith(FsPath(lastOp.doc), FsPath(ServiceUri(svc[id]))))
            => /\ lastOp.target # NoService
               /\ svc[lastOp.target].disposeCount = 0
               /\ svc[lastOp.target].status = "ready"

\* C3: when some bound root is a prefix of the document's path, the
\* service a format request goes to is a folder service whose root is a
\* prefix of the path, and no bound root that is a prefix is longer.
C3_LongestPrefixRouting ==
    (lastOp.op = "format" /\ Matching(lastOp.doc) # {}) =>
        /\ lastOp.target \in Range(folders)
        /\ StartsWith(FsPath(lastOp.doc), FsPath(ServiceUri(svc[lastOp.target])))
        /\ \A i \in Matching(lastOp.doc) :
              Len(ServiceUri(svc[folders[i]])) <= Len(ServiceUri(svc[lastOp.target]))

\* C3's case: /a/b/x is routed to the /a/b service of a table that holds
\* the /a service after it.
C3_Witness ==
    /\ lastOp.op = "format"
    /\ lastOp.doc = DocAB
    /\ \E i, j \in 1..Len(folders) :
          /\ i < j
          /\ ServiceUri(svc[folders[i]]) = RootAB
          /\ ServiceUri(svc[folders[j]]) = RootA
    /\ ServiceUri(svc[lastOp.target]) = RootAB

\* C4 (as claimed; the code violates it): a format request for a document no bound root matches goes to the
\* global folder, or returns undefined, no service called, when there is
\* none; a request some root matches never goes to the global folder.
C4_GlobalFallback ==
    lastOp.op = "format" =>
        /\ Matching(lastOp.doc) = {} =>
              /\ lastOp.target = globalFolder
              /\ lastOp.outcome =
                    IF globalFolder = NoService THEN "undefined" ELSE "dispatched"
        /\ Matching(lastOp.doc) # {} =>
              /\ lastOp.target \in Range(folders)
              /\ lastOp.target # globalFolder

\* C5 (as claimed; the code violates it): every router operation made on
\* a disposed router fails with ObjectDisposedError.
C5_OperationsFailAfterDispose ==
    (lastOp.op \in {"initializeFolders", "format", "getEditorServicePid"}
        /\ lastOp.wasDisposed)
    => lastOp.outcome = "Disposed"

\* C6: the router calls dispose() on each FolderService at most once, and
\* dispose() returns normally, also on a disposed router.
C6_DisposeAtMostOnce ==
    /\ \A id \in DOMAIN svc : svc[id].disposeCount <= 1
    /\ lastOp.op \in {"dispose", "WorkspaceService.dispose"}
          => lastOp.outcome = "returned"

\* C6's case: dispose() was called on a disposed router that had disposed
\* a service.
C6_Witness ==
    /\ lastOp.op = "WorkspaceService.dispose"
    /\ lastOp.wasDisposed
    /\ lastOp.outcome = "returned"
    /\ \E id \in DOMAIN svc : svc[id].disposeCount = 1

\* C7: a step that is initializeFolders on a disposed router throws
\* ObjectDisposedError and changes neither the services, nor the table,
\* nor the calls in progress.
C7_InitializeOnDisposedRouter ==
    [][(lastOp'.op = "initializeFolders" /\ lastOp'.wasDisposed) =>
          /\ lastOp'.outcome = "Disposed"
          /\ svc' = svc
          /\ folders' = folders
          /\ globalFolder' = globalFolder
          /\ calls' = calls]_vars

\* C7's case: initializeFolders was called on a disposed router.
C7_Witness ==
    /\ lastOp.op = "initializeFolders"
    /\ lastOp.wasDisposed
    /\ lastOp.outcome = "Disposed"
    /\ svc # <<>>

\* C8 (as claimed; the code violates it): a call during which dispose()
\* ran ends with ObjectDisposedError, returns no folder infos, and none of
\* the services it built is in the routing table.
C8_DisposedCallInstallsNothing ==
    \A c \in DOMAIN calls :
        (calls[c].pc = "done" /\ calls[c].disposedDuring) =>
            /\ calls[c].outcome = "Disposed"
            /\ calls[c].infos = <<>>
            /\ \A id \in InTable(folders, globalFolder) : svc[id].builtBy # c

\* C9 (as claimed; the code violates it): once the router is disposed and
\* no initializeFolders call is pending, every service ever constructed
\* has been disposed.
C9_AllDisposedAfterDispose ==
    (disposed /\ \A c \in DOMAIN calls : ~InProgress(calls[c])) =>
        \A id \in DOMAIN svc : svc[id].disposeCount >= 1

\* C10 (as claimed; the code violates it): after a run of
\* initializeFolders, no two folder services it put in the table are bound
\* to the same workspace folder.
C10_OneServicePerFolder ==
    \A c \in DOMAIN calls :
        calls[c].pc = "done" =>
            \A i, j \in 1..Len(folders) :
                (/\ i # j
                 /\ svc[folders[i]].builtBy = c
                 /\ svc[folders[j]].builtBy = c)
                => svc[folders[i]].workspaceFolder # svc[folders[j]].workspaceFolder

\* The config files call c discovered that lie below no workspace folder,
\* in discovery order.
UserLevelSeen(c) ==
    SelectSeq(calls[c].seen.configFiles,
              LAMBDA cf : \A k \in 1..Len(workspaceFolders.list) :
                             ~Inside(cf, workspaceFolders.list[k]))

\* C11 (as claimed; the code violates it): when the router is not disposed
\* and no initializeFolders call is in progress, the global folder exists
\* exactly when the call started last discovered a user-level config file.
C11_GlobalIffUserLevelDiscovered ==
    (/\ ~disposed
     /\ calls # <<>>
     /\ \A c \in DOMAIN calls : ~InProgress(calls[c]))
    => ((globalFolder # NoService) <=> (UserLevelSeen(Len(calls)) # <<>>))

\* Call c has resumed after discovery and built its services.
HasBuilt(c) == calls[c].seen.discovered

\* The positions of the folder table that hold a service call c bound to
\* workspace folder f.
BoundTo(c, f) ==
    {i \in 1..Len(folders) :
        svc[folders[i]].builtBy = c /\ svc[folders[i]].workspaceFolder = f}

\* What the configPath setting of folder f resolved to in call c, or None.
ExplicitSeen(c, f) ==
    IF ToString(f) \in DOMAIN calls[c].seen.map
    THEN calls[c].seen.map[ToString(f)] ELSE None

\* The config files call c discovered that lie below folder f.
InFolderSeen(c, f) ==
    {cf \in Range(calls[c].seen.configFiles) : Inside(cf, f)}

\* C12: a workspace folder whose configPath setting resolved is bound by
\* exactly one service of the folder table, and that service is bound to
\* the resolved uri, whatever was discovered.
C12_ExplicitConfigPathWins ==
    \A c \in DOMAIN calls :
        HasBuilt(c) =>
            \A f \in Range(workspaceFolders.list) :
                ExplicitSeen(c, f) # None =>
                    /\ Cardinality(BoundTo(c, f)) = 1
                    /\ \A i \in BoundTo(c, f) :
                          svc[folders[i]].configUri = ExplicitSeen(c, f)

\* C12's case: /a has a resolved configPath while discovery found a config
\* file in /a and a user-level one.
C12_Witness ==
    /\ calls # <<>>
    /\ calls[1].pc = "done"
    /\ HasBuilt(1)
    /\ ExplicitSeen(1, RootA) = ConfE
    /\ calls[1].seen.configFiles = <<ConfA, ConfU>>
    /\ \E i \in BoundTo(1, RootA) : svc[folders[i]].configUri = ConfE

\* C13: a workspace folder with no resolved configPath and with a
\* discovered config file below its root is bound to such a file, and no
\* service bound to the folder has a user-level config file.
C13_InFolderConfigBeforeUserLevel ==
    \A c \in DOMAIN calls :
        HasBuilt(c) =>
            \A f \in Range(workspaceFolders.list) :
                (ExplicitSeen(c, f) = None /\ InFolderSeen(c, f) # {}) =>
                    /\ \E i \in BoundTo(c, f) :
                          svc[folders[i]].configUri \in InFolderSeen(c, f)
                    /\ \A i \in BoundTo(c, f) :
                          svc[folders[i]].configUri \notin Range(UserLevelSeen(c))

\* C13's case: discovery found a user-level config first and a config in
\* a subdirectory of /a; /a is bound to the latter.
C13_Witness ==
    /\ calls # <<>>
    /\ calls[1].pc = "done"
    /\ HasBuilt(1)
    /\ ExplicitSeen(1, RootA) = None
    /\ calls[1].seen.configFiles = <<ConfU, ConfAB>>
    /\ \E i \in BoundTo(1, RootA) : svc[folders[i]].configUri = ConfAB

\* Workspace folder f has, in call c, neither a resolved configPath nor a
\* discovered config file below its root.
NoOwnConfig(c, f) == ExplicitSeen(c, f) = None /\ InFolderSeen(c, f) = {}

\* C14 (as claimed; the code violates it): when a call discovered a
\* user-level config file, every workspace folder with neither a resolved
\* configPath nor a config file below its root is bound by exactly one
\* service, whose config is the first user-level file discovered.
C14_UserLevelFallback ==
    \A c \in DOMAIN calls :
        (HasBuilt(c) /\ UserLevelSeen(c) # <<>>) =>
            \A f \in Range(workspaceFolders.list) :
                NoOwnConfig(c, f) =>
                    /\ Cardinality(BoundTo(c, f)) = 1
                    /\ \A i \in BoundTo(c, f) :
                          svc[folders[i]].configUri = UserLevelSeen(c)[1]

\* C15 (as claimed; the code violates it): when a call discovered no
\* user-level config file, a workspace folder with neither a resolved
\* configPath nor a config file below its root is bound by one service
\* with no config uri if an ancestor directory holds a config file, and
\* by no service otherwise.
C15_AncestorFallback ==
    \A c \in DOMAIN calls :
        (HasBuilt(c) /\ UserLevelSeen(c) = <<>>) =>
            \A f \in Range(workspaceFolders.list) :
                NoOwnConfig(c, f) =>
                    IF f \in calls[c].seen.ancestors
                    THEN /\ Cardinality(BoundTo(c, f)) = 1
                         /\ \A i \in BoundTo(c, f) :
                               svc[folders[i]].configUri = None
                    ELSE BoundTo(c, f) = {}

\* The string p is a prefix of the string s, character by character.
IsPrefix(p, s) == Len(p) <= Len(s) /\ \A i \in 1..Len(p) : p[i] = s[i]

\* C16: isUserLevelConfig(configUri, roots) is true exactly when no root is
\* a prefix of configUri; so it is true for every config when roots is
\* empty.
C16_IsUserLevelConfig ==
    lastOp.op = "isUserLevelConfig" =>
        /\ (lastOp.outcome = "true") <=>
              \A k \in 1..Len(workspaceFolders.list) :
                  ~IsPrefix(ToString(workspaceFolders.list[k]),
                            ToString(lastOp.doc))
        /\ workspaceFolders.list = <<>> => lastOp.outcome = "true"

\* C16's case: the config file lies in the second of two roots and is
\* not user-level.
C16_Witness ==
    /\ lastOp.op = "isUserLevelConfig"
    /\ workspaceFolders.list = <<RootB, RootA>>
    /\ lastOp.doc = ConfA
    /\ lastOp.outcome = "false"

\* The config uri lies below some workspace folder.
InSomeFolder(cf) ==
    \E k \in 1..Len(workspaceFolders.list) : Inside(cf, workspaceFolders.list[k])

\* The service at position i of the folder table, bound to folder f by
\* call c, got its config as the user-level fallback: the config is
\* neither the resolved configPath of f nor prefixed by f.
BoundAsFallback(c, f, i) ==
    /\ svc[folders[i]].configUri # None
    /\ ExplicitSeen(c, f) = None
    /\ ~IsPrefix(ToString(f), ToString(svc[folders[i]].configUri))

\* C17: a config file that lies below a workspace folder is never bound
\* to another folder as its user-level fallback, and is never the config
\* of the global folder.
C17_MultiRootIsolation ==
    \A c \in DOMAIN calls :
        HasBuilt(c) =>
            /\ \A f \in Range(workspaceFolders.list) :
                  \A i \in BoundTo(c, f) :
                      BoundAsFallback(c, f, i) =>
                          ~InSomeFolder(svc[folders[i]].configUri)
            /\ (globalFolder # NoService /\ svc[globalFolder].builtBy = c) =>
                  ~InSomeFolder(svc[globalFolder].configUri)

\* C17's case: roots /a and /b, discovery found /a/d and the user-level
\* /u/d; /b falls back to /u/d, as does the global folder.
C17_Witness ==
    /\ workspaceFolders.list = <<RootA, RootB>>
    /\ calls # <<>>
    /\ calls[1].pc = "done"
    /\ calls[1].seen.configFiles = <<ConfA, ConfU>>
    /\ \E i \in BoundTo(1, RootB) :
          BoundAsFallback(1, RootB, i) /\ svc[folders[i]].configUri = ConfU
    /\ globalFolder # NoService
    /\ svc[globalFolder].configUri = ConfU

\* C18: the global folder a call built has the first user-level config
\* file the call discovered as its config and useConfigDirAsCwd set, and
\* no service of the folder table has useConfigDirAsCwd set.
C18_UseConfigDirAsCwdOnlyGlobal ==
    /\ \A c \in DOMAIN calls :
          (HasBuilt(c) /\ globalFolder # NoService
              /\ svc[globalFolder].builtBy = c) =>
              /\ svc[globalFolder].useConfigDirAsCwd
              /\ UserLevelSeen(c) # <<>>
              /\ svc[globalFolder].configUri = UserLevelSeen(c)[1]
    /\ \A i \in 1..Len(folders) : ~svc[folders[i]].useConfigDirAsCwd

\* C18's case: two user-level config files were discovered, /v/d first;
\* the global folder has /v/d, beside a folder service for /a.
C18_Witness ==
    /\ calls # <<>>
    /\ calls[1].pc = "done"
    /\ calls[1].seen.configFiles = <<ConfV, ConfU>>
    /\ globalFolder # NoService
    /\ svc[globalFolder].configUri = ConfV
    /\ svc[globalFolder].useConfigDirAsCwd
    /\ BoundTo(1, RootA) # {}

C20_FailedServicesDiscarded ==
    /\ \A c \in DOMAIN calls :
          (calls[c].pc = "done" /\ calls[c].outcome = "returned") =>
              \A id \in InTable(folders, globalFolder) :
                  svc[id].builtBy = c => svc[id].status # "failed"
    /\ (lastOp.op = "format" /\ lastOp.target # NoService
           /\ ~InProgress(calls[svc[lastOp.target].builtBy]))
       => svc[lastOp.target].status # "failed"

\* Call c awaited the initialize() of a service that failed: it returned
\* false or raised an error.
SomeInitFailed(c) ==
    \E k \in 1..Len(calls[c].toInit) : calls[c].settled[k] \in {"failed", "threw"}

\* C21: when the initialize() of one FolderService fails, by returning
\* false or by raising an error, initializeFolders still completes: the
\* call returns a list, and every sibling whose initialize() succeeded is
\* in that list and in the routing table.
C21_FailedInitLeavesSiblings ==
    \A c \in DOMAIN calls :
        (calls[c].pc = "done" /\ ~calls[c].disposedDuring /\ SomeInitFailed(c))
            => /\ calls[c].outcome = "returned"
               /\ \A k \in 1..Len(calls[c].toInit) :
                     calls[c].settled[k] = "ok"
                         => /\ calls[c].toInit[k] \in Range(calls[c].infos)
                            /\ calls[c].toInit[k] \in InTable(folders, globalFolder)

\* Call c built a service bound to workspace folder f.
BuiltFor(c, f) ==
    \E id \in DOMAIN svc : svc[id].builtBy = c /\ svc[id].workspaceFolder = f

\* C22: a workspace folder whose configPath setting is present but fails
\* to resolve is excluded: the call creates no FolderService for it and
\* the routing table holds none bound to it.
C22_UnresolvedConfigPathExcluded ==
    \A c \in DOMAIN calls : \A f \in calls[c].seen.unresolved :
        HasBuilt(c) => /\ ~BuiltFor(c, f)
                       /\ \A id \in InTable(folders, globalFolder) :
                             svc[id].useConfigDirAsCwd \/ svc[id].workspaceFolder # f

\* The routing table in order: the folder bindings, then the global one.
TableOrder(tbl, g) == tbl \o (IF g # NoService THEN <<g>> ELSE <<>>)

\* C23 (as claimed; the code violates it): the list a call returns holds
\* exactly one entry for each service of its generation whose
\* initialize() returned true and that reports editor info, in
\* routing-table order with the global binding last; it is empty when
\* there are no workspace folders (the list is null or empty) or the
\* table has no binding.
C23_ReturnedInfos ==
    \A c \in DOMAIN calls :
        calls[c].outcome = "returned" =>
            /\ calls[c].infos =
                  SelectSeq(TableOrder(folders, globalFolder),
                            LAMBDA id : /\ svc[id].builtBy = c
                                        /\ svc[id].status = "ready"
                                        /\ svc[id].editorInfo)
            /\ \A i, j \in 1..Len(calls[c].infos) :
                  i # j => calls[c].infos[i] # calls[c].infos[j]
            /\ (\/ workspaceFolders.isNull
                \/ workspaceFolders.list = <<>>
                \/ InTable(folders, globalFolder) = {})
                  => calls[c].infos = <<>>

\* The positions of the table, in order, whose service has a running
\* formatter process.
RunningAt(order) == {i \in 1..Len(order) : svc[order[i]].running}

\* C24: getEditorServicePid returns the pid of the first service, folder
\* bindings before the global binding, that has a running formatter
\* process, and undefined (0) exactly when no bound service has one.
C24_FirstRunningPid ==
    lastOp.op = "getEditorServicePid" =>
        LET order == TableOrder(folders, globalFolder)
            running == RunningAt(order)
        IN IF running = {} THEN lastOp.pid = 0
           ELSE \E i \in running :
                   /\ \A j \in running : i <= j
                   /\ lastOp.pid = ServicePid(svc, order[i])
                   /\ lastOp.pid # 0

\* The pid of the second folder binding was returned: the first binding
\* has no running process, the global binding has one.
C24_Witness ==
    /\ lastOp.op = "getEditorServicePid"
    /\ Len(folders) = 2 /\ globalFolder # NoService
    /\ ~svc[folders[1]].running
    /\ svc[folders[2]].running /\ svc[globalFolder].running
    /\ lastOp.pid = folders[2]

\* No bound service has a running process and undefined was returned.
C24_WitnessUndefined ==
    /\ lastOp.op = "getEditorServicePid"
    /\ InTable(folders, globalFolder) # {}
    /\ lastOp.pid = 0

\* The document is one of the folder of bound service id: it lies at or
\* below the folder, and below no bound folder nested deeper; a document
\* of the global binding lies in no bound folder.
DocumentOf(doc, id) ==
    LET In(root) == doc = root \/ Inside(doc, root)
    IN IF id = globalFolder
       THEN \A j \in Range(folders) : ~In(svc[j].workspaceFolder)
       ELSE /\ id \in Range(folders)
            /\ In(svc[id].workspaceFolder)
            /\ \A j \in Range(folders) :
                  In(svc[j].workspaceFolder)
                     => Len(svc[j].workspaceFolder) <= Len(svc[id].workspaceFolder)

\* C25 (as claimed; the code violates it): after the formatter process of
\* a bound service is killed from outside, the next format request for a
\* document of that folder is served by that service after one restart
\* of its process, and getEditorServicePid then reports a pid different
\* from the one it reported before the kill.
C25_PidDiffersAfterKill ==
    [][/\ (/\ lastOp.op = "kill"
           /\ lastOp'.op = "format"
           /\ DocumentOf(lastOp'.doc, lastOp.target))
             => /\ lastOp'.outcome = "restarted"
                /\ lastOp'.target = lastOp.target
                /\ svc'[lastOp.target].running
                /\ svc'[lastOp.target].restarts = svc[lastOp.target].restarts + 1
       /\ (/\ lastOp.op = "format"
           /\ lastOp.killed # NoService
           /\ DocumentOf(lastOp.doc, lastOp.killed)
           /\ lastOp'.op = "getEditorServicePid")
             => lastOp'.pid \notin {0, lastOp.pid}]_vars

\* C26: a Disposed error that initializeFolders raises during a
\* re-initialization reaches the caller of reInitialize, or is at least
\* logged as an error; it is never silently swallowed.
C26_DisposedErrorSurfaced ==
    \A c \in DOMAIN calls :
        (calls[c].outcome = "Disposed" /\ calls[c].reInit.settled # "pending")
            => \/ calls[c].reInit.settled = "rejected"
               \/ calls[c].reInit.errorLogged

\* The names a path leads through, read from its end: an empty segment
\* and "." name nothing, ".." takes away the name before it; up counts
\* the ".." still to be applied, which stay in front of a relative path
\* and are dropped at the root of an absolute one.
RECURSIVE NamesFromEnd(_, _, _)
NamesFromEnd(segments, up, absolute) ==
    IF segments = <<>>
    THEN IF absolute THEN <<>> ELSE [i \in 1..up |-> <<".", ".">>]
    ELSE LET last == segments[Len(segments)]
             front == SubSeq(segments, 1, Len(segments) - 1)
         IN IF last = <<>> \/ last = <<".">> THEN NamesFromEnd(front, up, absolute)
            ELSE IF last = <<".", ".">> THEN NamesFromEnd(front, up + 1, absolute)
            ELSE IF up > 0 THEN NamesFromEnd(front, up - 1, absolute)
            ELSE Append(NamesFromEnd(front, 0, absolute), last)

\* The path written in its shortest form: the root separator when it
\* begins with a separator, then its names with sep between them.
Shortest(p, seps, sep) ==
    LET absolute == p # <<>> /\ p[1] \in seps
    IN (IF absolute THEN <<sep>> ELSE <<>>)
          \o JoinSegments(NamesFromEnd(Split(p, seps), 0, absolute), sep)

\* On win32 the path has no colon and does not begin with exactly two
\* separators and a name: it has no drive, no device and no UNC root.
\* On the other platforms every path is rootless in this sense.
NoDeviceRoot(p, platform) ==
    platform = "win32" =>
        /\ \A i \in 1..Len(p) : p[i] # ":"
        /\ ~(/\ Len(p) > 2
             /\ p[1] \in {"/", "\\"}
             /\ p[2] \in {"/", "\\"}
             /\ p[3] \notin {"/", "\\"})

\* The segments name something: none is empty, "." or "..".
AllNames(segments) ==
    \A i \in 1..Len(segments) :
        segments[i] \notin {<<>>, <<".">>, <<".", ".">>}

\* The path is already in the form joining gives: not empty, and
\* - on the other platforms: names separated by single slashes, a slash
\*   in front when absolute;
\* - on win32: no forward slash, no colon but that of a drive letter in
\*   front, and behind the drive letter (if any) either nothing, or
\*   names separated by single backslashes with a backslash in front
\*   when absolute, or, without a drive letter, two backslashes, a
\*   server other than "." and "?", a share and names.
PlainPath(p, platform) ==
    /\ p # <<>>
    /\ IF platform # "win32"
       THEN LET segments == Split(p, {"/"})
            IN IF Head(segments) = <<>>
               THEN Len(segments) > 1 /\ AllNames(Tail(segments))
               ELSE AllNames(segments)
       ELSE LET drive == Len(p) >= 2 /\ p[1] \in Letters /\ p[2] = ":"
                rest == IF drive THEN SubSeq(p, 3, Len(p)) ELSE p
                segments == Split(rest, {"\\"})
            IN /\ \A i \in 1..Len(rest) : rest[i] \notin {"/", ":"}
               /\ (~drive \/ rest # <<>>) =>
                     IF Head(segments) # <<>> THEN AllNames(segments)
                     ELSE IF Len(segments) > 2 /\ segments[2] = <<>> /\ ~drive
                     THEN /\ Len(segments) > 3
                          /\ AllNames(SubSeq(segments, 3, Len(segments)))
                          /\ segments[3] # <<"?">>
                     ELSE Len(segments) > 1 /\ AllNames(Tail(segments))

\* C27: getUserConfigDirectory returns, on win32, APPDATA joined with
\* dprint when APPDATA is set and not empty, else
\* home\AppData\Roaming\dprint; on the other platforms XDG_CONFIG_HOME
\* joined with dprint when set and not empty, else home/.config/dprint.
\* APPDATA has no effect off win32, XDG_CONFIG_HOME none on win32.
\* Joined is read as the platform's path.join: the directory (APPDATA,
\* XDG_CONFIG_HOME or home) followed by the names, in shortest form. The
\* result always ends in the names; it is the directory, a separator and
\* the names, letter by letter, when the directory is already in the
\* form joining gives; it is the shortest form of that text when the
\* directory has no drive, device or UNC root; and it is the names alone
\* when the home directory is the empty string.
C27_UserConfigDirectory ==
    lastOp.op = "getUserConfigDirectory" =>
        LET home == lastOp.doc.homedir
            platform == lastOp.doc.platform
            env == lastOp.doc.env
            result == lastOp.outcome
            win == platform = "win32"
            used == IF win THEN env.APPDATA ELSE env.XDG_CONFIG_HOME
            sep == IF win THEN "\\" ELSE "/"
            seps == IF win THEN {"/", "\\"} ELSE {"/"}
            usable == used.set /\ used.value # <<>>
            directory == IF usable THEN used.value ELSE home
            names == IF usable THEN <<<<"dprint">>>>
                     ELSE IF win THEN <<<<"AppData">>, <<"Roaming">>, <<"dprint">>>>
                     ELSE <<<<".", "config">>, <<"dprint">>>>
            below == JoinSegments(names, sep)
            text == directory \o <<sep>> \o below
            written == Split(result, {sep})
            ending == IF written[Len(written)] = <<>>
                      THEN SubSeq(written, 1, Len(written) - 1)
                      ELSE written
        IN /\ Len(ending) >= Len(names)
           /\ SubSeq(ending, Len(ending) - Len(names) + 1, Len(ending)) = names
           /\ PlainPath(directory, platform) => result = text
           /\ (directory # <<>> /\ NoDeviceRoot(directory, platform))
                 => result = Shortest(text, seps, sep)
           /\ directory = <<>> => result = below
           /\ \A v \in EnvValues :
                 result = GetUserConfigDirectory(home, platform,
                              IF win THEN [env EXCEPT !.XDG_CONFIG_HOME = v]
                              ELSE [env EXCEPT !.APPDATA = v])

\* On win32 APPDATA is the empty string and XDG_CONFIG_HOME is set: the
\* directory below the home directory was returned.
C27_Witness ==
    /\ lastOp.op = "getUserConfigDirectory"
    /\ lastOp.doc.platform = "win32"
    /\ lastOp.doc.env.APPDATA = Value(<<>>)
    /\ lastOp.doc.env.XDG_CONFIG_HOME = Value(<<"/", "custom">>)
    /\ lastOp.doc.homedir = <<"C", ":", "\\", "Users", "\\", "u">>
    /\ lastOp.outcome = <<"C", ":", "\\", "Users", "\\", "u", "\\", "AppData",
                          "\\", "Roaming", "\\", "dprint">>

\* C28: under any interleaving of overlapping initializeFolders calls,
\* initialize() is invoked at most once on each FolderService instance.
C28_InitializeAtMostOnce ==
    \A id \in DOMAIN svc : svc[id].initCount <= 1

\* C29: when two initializeFolders calls overlap, the routing table after
\* both have finished is the generation one of them built: it never holds
\* services built by both, nor two services for one workspace folder
\* (here: two bound to the same folder with the same config file, which no
\* single call builds).
C29_TableOfOneCall ==
    (Len(calls) = 2 /\ \A c \in DOMAIN calls : calls[c].pc = "done")
        => /\ \E c \in DOMAIN calls :
                 \A id \in InTable(folders, globalFolder) : svc[id].builtBy = c
           /\ \A i, j \in 1..Len(folders) :
                 (i # j /\ svc[folders[i]].workspaceFolder
                              = svc[folders[j]].workspaceFolder)
                     => svc[folders[i]].configUri # svc[folders[j]].configUri

\* C30: every FolderService constructed and not yet disposed is referenced
\* by the routing table: no reference to an undisposed service, the global
\* one in particular, is overwritten or dropped without disposing it.
C30_UndisposedServicesReferenced ==
    \A id \in DOMAIN svc :
        svc[id].disposeCount = 0 => id \in InTable(folders, globalFolder)

\* The calls whose reInitialize() made a registration that is live.
LiveRegistrations ==
    {c \in DOMAIN calls : calls[c].reInit.registration = "live"}

\* C31: under any interleaving of reInitialize and dispose calls at most
\* one formatting provider registration of the backend is live: the live
\* one is the one formatterDisposable holds, every earlier one having
\* been disposed before it was made.
C31_AtMostOneLiveRegistration ==
    /\ Cardinality(LiveRegistrations) <= 1
    /\ \A c \in LiveRegistrations : calls[c].reInit.held
    /\ \A c, e \in DOMAIN calls :
          (calls[c].reInit.held /\ calls[e].reInit.held) => c = e

\* The registration of the first reInitialize was disposed and the second
\* reInitialize made the one that is live.
C31_Witness ==
    /\ Len(calls) = 2
    /\ calls[1].reInit.registration = "disposed"
    /\ calls[2].reInit.registration = "live"
    /\ ~disposed

\* C32 (as claimed; the code violates it): once dispose() of the backend
\* has run no formatting provider registration is live, whether a
\* reInitialize was suspended inside initializeFolders at the time or is
\* called afterwards.
C32_NoRegistrationAfterDispose ==
    disposed => LiveRegistrations = {}

\* C33 (as claimed; the code violates it): when a reInitialize ends
\* because initializeFolders raised an error, no registration made by an
\* earlier reInitialize remains live.
C33_NoStaleRegistrationAfterError ==
    [][\A c \in DOMAIN calls :
          (calls[c].reInit.settled = "pending"
              /\ calls'[c].reInit.settled # "pending"
              /\ calls[c].outcome # "returned")
              => \A e \in 1..(c - 1) :
                    calls'[e].reInit.registration # "live"]_vars

\* C34: reInitialize never raises an error to its caller, whatever error
\* initializeFolders, setFolderInfos or the registration raises, and an
\* ObjectDisposedError is not logged as an error.
C34_ReInitializeNeverRaises ==
    \A c \in DOMAIN calls :
        (calls[c].pc = "done" /\ calls[c].reInit.settled # "pending")
            => /\ calls[c].reInit.settled = "resolved"
               /\ calls[c].outcome = "Disposed" => ~calls[c].reInit.errorLogged
               /\ calls[c].outcome \in {"Error", "TypeError"}
                     => calls[c].reInit.errorLogged

\* One reInitialize ended with the error an initialize() raised, another
\* with an error raised after initializeFolders had returned.
C34_Witness ==
    /\ Len(calls) = 2
    /\ calls[1].outcome = "Error" /\ calls[1].reInit.settled = "resolved"
    /\ calls[2].outcome = "returned" /\ calls[2].reInit.errorLogged
    /\ calls[2].reInit.settled = "resolved"

\* The file lies at or below the directory root, by path containment.
LocatedIn(uri, root) == uri = root \/ Inside(uri, root)

\* C35: a format request for a document that lies inside no bound folder
\* root is never dispatched to a folder service: it goes to the global
\* folder or to no formatter, also when the document lies in a sibling
\* directory whose name begins with the name of a bound root.
C35_OutsideNeverToFolderService ==
    (/\ lastOp.op = "format"
     /\ \A i \in 1..Len(folders) :
           ~LocatedIn(FsPath(lastOp.doc), FsPath(ServiceUri(svc[folders[i]]))))
        => lastOp.target \notin Range(folders)

\* C36: isUserLevelConfig is true for every config file that lies at or
\* below no workspace folder root, also when it lies in a sibling
\* directory whose name begins with the name of a root.
C36_OutsideIsUserLevel ==
    (/\ lastOp.op = "isUserLevelConfig"
     /\ \A k \in 1..Len(workspaceFolders.list) :
           ~LocatedIn(lastOp.doc, workspaceFolders.list[k]))
        => lastOp.outcome = "true"

\* C37: the anchor workspace folder of the global folder service is one
\* of the workspace folders and is never absent, also when the list of
\* workspace folders is empty and a user-level config was discovered.
C37_GlobalAnchorExists ==
    globalFolder # NoService =>
        /\ svc[globalFolder].workspaceFolder # None
        /\ svc[globalFolder].workspaceFolder \in Range(workspaceFolders.list)

\* The plugins reported by the folder infos call c returned.
ReportedPlugins(c) ==
    UNION {Range(PluginsOf(svc[calls[c].infos[i]].configUri)) :
              i \in DOMAIN calls[c].infos}

\* The registry keys of the plugins call c's folder infos report: the
\* configKey of a plugin, or its name when the configKey is empty, when
\* the registry has an entry under it.
KnownKeys(c) ==
    {k \in DOMAIN Registry :
        \E plugin \in ReportedPlugins(c) :
            \/ plugin.configKey = k
            \/ plugin.configKey = "" /\ plugin.name = k}

\* C38: after a reInitialize that completed without error a formatting
\* provider is registered exactly when some plugin the folder infos report
\* has its key in the plugin registry, and the languages registered are
\* the union of the registry's language ids over those keys.
C38_RegisteredLanguages ==
    \A c \in DOMAIN calls :
        (/\ calls[c].pc = "done"
         /\ calls[c].outcome = "returned"
         /\ calls[c].reInit.settled = "resolved"
         /\ ~calls[c].reInit.errorLogged)
            => /\ calls[c].reInit.registration # "none" <=> KnownKeys(c) # {}
               /\ calls[c].reInit.languages =
                     UNION {Registry[k] : k \in KnownKeys(c)}

\* A plugin known by its name (empty configKey), a plugin known by its
\* configKey and a plugin with an unknown key were reported: the toml and
\* json languages are registered.
C38_Witness ==
    /\ Len(calls) = 1
    /\ calls[1].pc = "done"
    /\ KnownKeys(1) = {"toml", "json"}
    /\ Plugin("custom", "markdown") \in ReportedPlugins(1)
    /\ calls[1].reInit.registration = "live"
    /\ calls[1].reInit.languages = Registry["toml"] \cup Registry["json"]

\* The config of each folder getCombinedDprintConfig was called with.
FolderConfigs ==
    [i \in DOMAIN lastOp.doc.folders |->
        GetDprintConfig(lastOp.doc.folders[i], lastOp.doc.env)]

\* The first folder in list order whose pathInfo is defined, or 0.
FirstWithPathInfo ==
    IF \E i \in DOMAIN FolderConfigs : FolderConfigs[i].pathInfo.set
    THEN CHOOSE i \in DOMAIN FolderConfigs :
            /\ FolderConfigs[i].pathInfo.set
            /\ \A j \in 1..(i - 1) : ~FolderConfigs[j].pathInfo.set
    ELSE 0

\* The first folder in list order whose configPath is defined, or 0.
FirstWithConfigPath ==
    IF \E i \in DOMAIN FolderConfigs : FolderConfigs[i].configPath.set
    THEN CHOOSE i \in DOMAIN FolderConfigs :
            /\ FolderConfigs[i].configPath.set
            /\ \A j \in 1..(i - 1) : ~FolderConfigs[j].configPath.set
    ELSE 0

\* C39: getCombinedDprintConfig returns verbose (experimentalLsp) true
\* exactly when some folder has it true, checkUserLevelConfig false
\* exactly when some folder has it false (true for an empty list), and
\* the pathInfo and the configPath of the first folder in list order that
\* defines them (undefined when none does).
C39_CombinedConfig ==
    lastOp.op = "getCombinedDprintConfig" =>
        /\ lastOp.outcome.verbose <=>
              \E i \in DOMAIN FolderConfigs : FolderConfigs[i].verbose
        /\ lastOp.outcome.experimentalLsp <=>
              \E i \in DOMAIN FolderConfigs : FolderConfigs[i].experimentalLsp
        /\ ~lastOp.outcome.checkUserLevelConfig <=>
              \E i \in DOMAIN FolderConfigs : ~FolderConfigs[i].checkUserLevelConfig
        /\ lastOp.doc.folders = <<>> => lastOp.outcome.checkUserLevelConfig
        /\ lastOp.outcome.pathInfo =
              IF FirstWithPathInfo = 0 THEN NoPathInfo
              ELSE FolderConfigs[FirstWithPathInfo].pathInfo
        /\ lastOp.outcome.configPath =
              IF FirstWithConfigPath = 0 THEN Unset
              ELSE FolderConfigs[FirstWithConfigPath].configPath

\* Two folders, HOME being /home/u: only the second is verbose and has a
\* path that is not blank, only the first has checkUserLevelConfig false,
\* both have a configPath, and the first folder's is returned.
C39_Witness ==
    /\ lastOp.op = "getCombinedDprintConfig"
    /\ lastOp.doc.env.HOME = Value(<<"/", "home", "/", "u">>)
    /\ Len(lastOp.doc.folders) = 2
    /\ lastOp.doc.folders[1].verbose = "false"
    /\ lastOp.doc.folders[2].verbose = "true"
    /\ lastOp.doc.folders[1].checkUserLevelConfig = "false"
    /\ lastOp.doc.folders[2].checkUserLevelConfig = "true"
    /\ lastOp.doc.folders[1].path = Value(<<" ", "\t">>)
    /\ lastOp.doc.folders[2].path = Value(<<" ", "p", " ">>)
    /\ lastOp.doc.folders[1].configPath = Value(<<"~", "/", "d">>)
    /\ lastOp.doc.folders[2].configPath = Value(<<"\t", "c", "\n">>)
    /\ lastOp.outcome =
          [pathInfo |-> [set |-> TRUE, value |-> <<"p">>,
                         isFromWorkspace |-> FALSE],
           verbose |-> TRUE,
           experimentalLsp |-> TRUE,
           configPath |-> Value(<<"/", "home", "/", "u", "/", "d">>),
           checkUserLevelConfig |-> FALSE]

====
